---------------------------- MODULE Spec2Model ----------------------------
(***************************************************************************)
(* Model of the niche-research pipeline of reddit-research-tool:           *)
(* NicheResearcher (src/researcher.py), NicheAnalyzer                      *)
(* (src/niche_analyzer.py) and the RedditAPIClient calls they make         *)
(* (src/api_client.py).                                                    *)
(*                                                                         *)
(* A string is a sequence of one-character strings.  A text (post title,   *)
(* post body) is a sequence of tokens: lowercase words and the delimiters  *)
(* ".", "!", "?" and "NL" (newline).                                       *)
(***************************************************************************)
EXTENDS Integers, Sequences, FiniteSets, TLC

(***************************************************************************)
(* Bounds of the model.                                                    *)
(***************************************************************************)
\* hash seeds of the interpreter (PYTHONHASHSEED) that are explored: 0..MaxSeed
MaxSeed == 1
\* the max_subreddits argument ranges over 1..MaxSubredditsArg
MaxSubredditsArg == 2
\* the posts_per_subreddit argument ranges over 1..MaxPostLimit
MaxPostLimit == 1
\* a community-search response carries at most MaxSearchResults records
MaxSearchResults == 2
\* a content response carries at most MaxPostsInResponse posts
MaxPostsInResponse == 2
\* a title given to the classifier is made of at most MaxTitleChunks chunks
MaxTitleChunks == 3
\* a body given to the classifier has at most MaxBodySentences sentences
MaxBodySentences == 2
\* analyze_comments is given at most MaxComments comments
MaxComments == 2
\* extract_common_themes is given at most MaxThemePosts posts
MaxThemePosts == 3
\* and a top_n of at most MaxTopN, or its default
MaxTopN == 2
\* a niche keyword given to generate_niche_variations has at most MaxNicheLen characters
MaxNicheLen == 4
\* an accumulated bucket holds at most MaxOverCap distinct fragments more than its cap
MaxOverCap == 1
\* a targeted script is followed over the first MaxTargets names of its TARGET_SUBREDDITS
MaxTargets == 3

(***************************************************************************)
(* Program constants.                                                      *)
(***************************************************************************)
\* for variation in variations[:5]
MaxVariationsQueried == 5
\* self.api.search_subreddits(variation, limit=10)
SearchLimit == 10
\* sub_data.get('public_description', '')[:200]
DescriptionLimit == 200
\* 'top_posts': posts[:10]
TopPostsPerSubreddit == 10
\* extract_common_themes(posts, top_n=20), theme_counts.most_common(20)
TopThemes == 20
\* top_posts=all_posts[:20]
TopPostsInReport == 20
\* list(set(...))[:50] for pain_points, questions, requests
CapLarge == 50
\* list(set(...))[:30] for solutions_mentioned, beliefs
CapSmall == 30
\* insights.pain_points[:10], questions[:10], requests[:10]
OpportunitiesPerBucket == 10
\* pain[:100]
OpportunityTextLimit == 100
\* research_crm_network.py: list(set(all_insights[key]))[:50]
CrmNetworkCap == 50
\* research_watermark.py: list(set(all_insights[key]))[:30]
WatermarkCap == 30
\* research_crm_network.py: post_data.get('selftext', '')[:500]
CrmNetworkBodyLimit == 500
\* research_watermark.py: post_data.get('selftext', '')[:300]
WatermarkBodyLimit == 300
\* research_crm_network.py: relevant_posts[:25]
CrmNetworkTopRelevant == 25
\* research_watermark.py: relevant_posts[:20]
WatermarkTopRelevant == 20

(***************************************************************************)
(* Sequence helpers.                                                       *)
(***************************************************************************)
Min(a, b) == IF a <= b THEN a ELSE b

Range(q) == {q[k] : k \in 1..Len(q)}

\* q[:n] for n >= 0
Take(q, n) == SubSeq(q, 1, Min(n, Len(q)))

Reverse(q) == [k \in 1..Len(q) |-> q[Len(q) + 1 - k]]

RECURSIVE Flatten(_)
Flatten(qq) == IF qq = <<>> THEN <<>> ELSE Head(qq) \o Flatten(Tail(qq))

SeqsUpTo(S, n) == UNION {[1..k -> S] : k \in 0..n}

\* the sequence q in the order of its keys, largest first; elements of equal
\* key keep their order
SortedByKeysDesc(q, keys) ==
  LET n == Len(q)
      Pos(j) == 1 + Cardinality({k \in 1..n :
                      \/ keys[k] > keys[j]
                      \/ (keys[k] = keys[j] /\ k < j)})
  IN [p \in 1..n |-> q[CHOOSE j \in 1..n : Pos(j) = p]]

\* sorted(seq, key=..., reverse=True), keys[k] being the key of q[k]: stable.
\* The list and the keys are evaluated once, then sorted.
StableSortDesc(q, keys) ==
  CHOOSE r \in {SortedByKeysDesc(list, ks) : list \in {q}, ks \in {keys}} : TRUE

\* A fixed enumeration of a finite set.
RECURSIVE Enumerate(_)
Enumerate(S) ==
  IF S = {} THEN <<>>
  ELSE LET x == CHOOSE x \in S : TRUE IN <<x>> \o Enumerate(S \ {x})

\* list(set(q)): the iteration order of a set of strings is fixed by the
\* interpreter's hash seed; seed s yields the fixed enumeration rotated by s.
HashOrder(S, s) ==
  LET e == Enumerate(S)
      n == Len(e)
  IN [k \in 1..n |-> e[((k - 1 + s) % n) + 1]]

\* d.get(key, default): a dict is a record that may lack a key
DictGet(d, key, default) == IF key \in DOMAIN d THEN d[key] ELSE default

(***************************************************************************)
(* Strings: str.lower, str.strip, str.split, str.join, str.endswith.       *)
(***************************************************************************)
LowerChar(c) ==
  CASE c = "A" -> "a"
    [] c = "B" -> "b"
    [] c = "S" -> "s"
    [] OTHER -> c

Lower(s) == [k \in 1..Len(s) |-> LowerChar(s[k])]

IsSpace(c) == c = " "

Strip(s) ==
  LET keep == {k \in 1..Len(s) : ~IsSpace(s[k])}
  IN IF keep = {} THEN <<>>
     ELSE SubSeq(s, CHOOSE k \in keep : \A j \in keep : k <= j,
                    CHOOSE k \in keep : \A j \in keep : k >= j)

\* s.split(): the maximal runs of non-whitespace characters
RECURSIVE SplitFrom(_, _, _)
SplitFrom(s, cur, acc) ==
  IF s = <<>> THEN (IF cur = <<>> THEN acc ELSE Append(acc, cur))
  ELSE IF IsSpace(Head(s))
       THEN SplitFrom(Tail(s), <<>>, IF cur = <<>> THEN acc ELSE Append(acc, cur))
       ELSE SplitFrom(Tail(s), Append(cur, Head(s)), acc)

Split(s) == SplitFrom(s, <<>>, <<>>)

\* ' '.join(words)
RECURSIVE JoinSpace(_)
JoinSpace(words) ==
  IF words = <<>> THEN <<>>
  ELSE IF Len(words) = 1 THEN words[1]
  ELSE words[1] \o <<" ">> \o JoinSpace(Tail(words))

EndsWithS(s) == s # <<>> /\ s[Len(s)] = "s"

(***************************************************************************)
(* NicheResearcher.generate_niche_variations                               *)
(***************************************************************************)
Suffixes ==
  << <<" ","s","o","f","t","w","a","r","e">>,
     <<" ","t","o","o","l">>,
     <<" ","a","p","p">>,
     <<" ","a","u","t","o","m","a","t","i","o","n">>,
     <<" ","h","e","l","p">>,
     <<" ","t","i","p","s">> >>

\* the list `variations` before list(set(...))
VariationList(niche) ==
  LET base  == Strip(Lower(niche))
      words == Split(base)
      fixed == <<base>>
               \o [k \in 1..Len(Suffixes) |-> base \o Suffixes[k]]
               \o << <<"b","e","s","t"," ">> \o base,
                     base \o <<" ","f","o","r"," ","b","e","g","i","n","n","e","r","s">>,
                     base \o <<" ","p","r","o","b","l","e","m","s">> >>
      flip  == IF EndsWithS(base) THEN SubSeq(base, 1, Len(base) - 1)
               ELSE base \o <<"s">>
      multi == IF Len(words) > 1
               THEN <<words[1], words[Len(words)], JoinSpace(Reverse(words))>>
               ELSE <<>>
  IN fixed \o <<flip>> \o multi

\* A variant that appends 's' whatever the last character of base.
GenerateNicheVariationsAlwaysPlural(niche, s) ==
  LET base == Strip(Lower(niche))
      list == VariationList(niche)
  IN HashOrder(Range([k \in 1..Len(list) |->
                        IF k = Len(Suffixes) + 5 THEN base \o <<"s">> ELSE list[k]]), s)

GenerateNicheVariations(niche, s) == HashOrder(Range(VariationList(niche)), s)

(***************************************************************************)
(* Texts.  NicheAnalyzer's pattern tables, as phrases of lowercase words;  *)
(* a phrase matches a text when its words occur in it consecutively,       *)
(* separated by single spaces, whatever their case (re.IGNORECASE).        *)
(***************************************************************************)
Delimiters == {".", "!", "?", "NL"}

LowerTok(t) ==
  CASE t = "I" -> "i"
    [] t = "Hate" -> "hate"
    [] t = "IMO" -> "imo"
    [] t = "IMHO" -> "imho"
    [] t = "None" -> "none"
    [] OTHER -> t

LowerText(text) == [k \in 1..Len(text) |-> LowerTok(text[k])]

\* the words of a phrase, separated by single spaces
Ph(ws) == [k \in 1..(2 * Len(ws) - 1) |-> IF k % 2 = 1 THEN ws[(k + 1) \div 2] ELSE " "]

PAIN_PATTERNS ==
  { <<"struggle">>, <<"struggling">>, <<"difficult">>, <<"hard","to">>,
    <<"can't">>, <<"cannot">>, <<"unable","to">>,
    <<"frustrated">>, <<"frustrating">>, <<"annoying">>, <<"annoyed">>,
    <<"hate">>, <<"hating">>,
    <<"problem">>, <<"issue">>, <<"bug">>, <<"broken">>,
    <<"doesn't","work">>, <<"not","working">>,
    <<"wish","there","was">>, <<"if","only">>, <<"would","be","nice","if">>,
    <<"tired","of">>, <<"sick","of">>, <<"fed","up","with">>,
    <<"waste","of","time">>, <<"time","consuming">>, <<"takes","forever">>,
    <<"expensive">>, <<"overpriced">>, <<"costs","too","much">>, <<"can't","afford">>,
    <<"complicated">>, <<"confusing">>, <<"complex">>, <<"overwhelming">> }

\* without the pattern \?$ (see EndsWithQuestionMark)
QUESTION_PATTERNS ==
  { <<"how","do","i">>, <<"how","can","i">>, <<"how","to">>,
    <<"what's","the","best","way">>,
    <<"anyone","know">>, <<"does","anyone">>, <<"has","anyone">>,
    <<"looking","for">>, <<"searching","for">>, <<"need","help","with">>, <<"need","a">>,
    <<"recommend">>, <<"suggestion">>, <<"advice">>, <<"tips">>,
    <<"alternative","to">>, <<"replacement","for">>, <<"instead","of">>,
    <<"is","there","a">>, <<"are","there","any">> }

REQUEST_PATTERNS ==
  { <<"wish">>, <<"want">>, <<"need">>, <<"require">>, <<"would","love">>,
    <<"should","have">>, <<"must","have">>, <<"needs","to","have">>,
    <<"feature","request">>, <<"suggestion">>, <<"idea">>,
    <<"please","add">>, <<"can","you","add">>, <<"would","be","great","if">> }

SOLUTION_PATTERNS ==
  { <<"i","use">>, <<"i'm","using">>, <<"we","use">>, <<"currently","using">>,
    <<"switched","to">>, <<"moved","to">>, <<"migrated","to">>,
    <<"recommend">>, <<"love">>, <<"great","tool">>, <<"best","tool">>,
    <<"solved","by">>, <<"fixed","by">>, <<"helped","by">> }

BELIEF_PATTERNS ==
  { <<"i","think">>, <<"i","believe">>, <<"in","my","opinion">>, <<"imo">>, <<"imho">>,
    <<"the","problem","is">>, <<"the","issue","is">>, <<"the","truth","is">>,
    <<"people","don't","realize">>, <<"most","people","think">>,
    <<"the","best","approach">>, <<"the","right","way">>, <<"should","be">> }

Patterns(family) ==
  CASE family = "pain" -> PAIN_PATTERNS
    [] family = "question" -> QUESTION_PATTERNS
    [] family = "request" -> REQUEST_PATTERNS
    [] family = "solution" -> SOLUTION_PATTERNS
    [] family = "belief" -> BELIEF_PATTERNS
    [] OTHER -> {}

ContainsPhrase(text, ws) ==
  LET p == Ph(ws)
      t == LowerText(text)
  IN \E o \in 0..(Len(t) - Len(p)) : \A k \in 1..Len(p) : t[o + k] = LowerTok(p[k])

\* r'\?$': a question mark at the end, or before a final newline
EndsWithQuestionMark(text) ==
  \/ (Len(text) >= 1 /\ text[Len(text)] = "?")
  \/ (Len(text) >= 2 /\ text[Len(text)] = "NL" /\ text[Len(text) - 1] = "?")

\* NicheAnalyzer._matches_patterns
MatchesPatterns(text, family) ==
  \/ \E ws \in Patterns(family) : ContainsPhrase(text, ws)
  \/ (family = "question" /\ EndsWithQuestionMark(text))

\* re.split(r'[.!?\n]', text)
RECURSIVE SplitSentences(_, _, _)
SplitSentences(text, cur, acc) ==
  IF text = <<>> THEN Append(acc, cur)
  ELSE IF Head(text) \in Delimiters
       THEN SplitSentences(Tail(text), <<>>, Append(acc, cur))
       ELSE SplitSentences(Tail(text), Append(cur, Head(text)), acc)

\* A variant that does not strip the sentences.
ExtractSentenceWithPatternNoStrip(text, family) ==
  SelectSeq(SplitSentences(text, <<>>, <<>>),
            LAMBDA s : Strip(s) # <<>> /\ MatchesPatterns(s, family))

\* NicheAnalyzer._extract_sentence_with_pattern
ExtractSentenceWithPattern(text, family) ==
  LET sentences == SplitSentences(text, <<>>, <<>>)
      stripped  == [k \in 1..Len(sentences) |-> Strip(sentences[k])]
  IN SelectSeq(stripped, LAMBDA s : s # <<>> /\ MatchesPatterns(s, family))

\* The value None, among texts: a text is a sequence of tokens, and no text
\* holds this token.
None == <<"<None>">>

\* bool(v) is False
Falsy(v) == v = None \/ v = <<>>

\* a or b
PyOr(a, b) == IF Falsy(a) THEN b ELSE a

\* f"{v}"
Format(v) == IF v = None THEN <<"None">> ELSE v

\* the five lists of sentences of one text
ExtractAll(text) ==
  [ pain_points |-> ExtractSentenceWithPattern(text, "pain"),
    questions   |-> ExtractSentenceWithPattern(text, "question"),
    requests    |-> ExtractSentenceWithPattern(text, "request"),
    solutions   |-> ExtractSentenceWithPattern(text, "solution"),
    beliefs     |-> ExtractSentenceWithPattern(text, "belief") ]

\* NicheAnalyzer.analyze_post
AnalyzePost(post) ==
  LET title     == DictGet(post, "title", <<>>)
      body      == PyOr(DictGet(post, "selftext", <<>>), DictGet(post, "body", <<>>))
      full_text == Format(title) \o <<".", " ">> \o Format(body)
  IN ExtractAll(full_text)

\* NicheAnalyzer.analyze_comments
RECURSIVE AnalyzeComments(_)
AnalyzeComments(comments) ==
  IF comments = <<>>
  THEN [pain_points |-> <<>>, questions |-> <<>>, requests |-> <<>>, solutions |-> <<>>,
        beliefs |-> <<>>]
  ELSE LET comment  == comments[Len(comments)]
           before   == AnalyzeComments(SubSeq(comments, 1, Len(comments) - 1))
           body     == PyOr(DictGet(comment, "body", <<>>), DictGet(comment, "text", <<>>))
           insights == ExtractAll(body)
       IN IF Falsy(body) THEN before
          ELSE [key \in DOMAIN before |-> before[key] \o insights[key]]

ShowcasePhrases ==
  { <<"i","made">>, <<"i","built">>, <<"i","created">>, <<"check","out">>, <<"showcase">> }

\* The characters of a token, in the pieces that matter to `word in title`:
\* a showcase phrase is looked for as a substring, without word boundaries.
Spell(t) ==
  CASE t = "hi" -> <<"h", "i">>
    [] t = "showcased" -> <<"showcase", "d">>
    [] OTHER -> <<t>>

SpellText(text) == Flatten([k \in 1..Len(text) |-> Spell(text[k])])

\* needle in haystack
IsSubstring(needle, haystack) ==
  \E o \in 0..(Len(haystack) - Len(needle)) : \A k \in 1..Len(needle) : haystack[o + k] = needle[k]

\* post.get('title', '').lower() raises AttributeError when the title is None
CategorizeRaises(post) ==
  IF DictGet(post, "title", <<>>) = None THEN "AttributeError" ELSE ""

\* A variant that tests for a pain pattern before the question patterns.
CategorizePostByIntentPainFirst(post) ==
  LET title == LowerText(DictGet(post, "title", <<>>))
  IN IF MatchesPatterns(title, "pain") THEN "complaint"
     ELSE IF "?" \in Range(title) \/ MatchesPatterns(title, "question") THEN "question"
     ELSE IF MatchesPatterns(title, "request") THEN "request"
     ELSE IF \E ws \in ShowcasePhrases : IsSubstring(Ph(ws), SpellText(title)) THEN "showcase"
     ELSE "discussion"

\* NicheAnalyzer.categorize_post_by_intent
CategorizePostByIntent(post) ==
  LET title == LowerText(DictGet(post, "title", <<>>))
  IN IF "?" \in Range(title) \/ MatchesPatterns(title, "question") THEN "question"
     ELSE IF MatchesPatterns(title, "pain") THEN "complaint"
     ELSE IF MatchesPatterns(title, "request") THEN "request"
     ELSE IF \E ws \in ShowcasePhrases : IsSubstring(Ph(ws), SpellText(title)) THEN "showcase"
     ELSE "discussion"

(***************************************************************************)
(* NicheAnalyzer.extract_common_themes                                     *)
(***************************************************************************)
\* tokens in which re.findall(r'\b[a-zA-Z]{3,}\b', ...) finds no word
NoWordTokens ==
  Delimiters \cup {" ", "i", "to", "do", "of", "a", "is", "my", "we", "if", "in", "up", "hi"}

stopwords ==
  { "the", "a", "an", "and", "or", "but", "in", "on", "at", "to", "for",
    "of", "with", "by", "from", "is", "are", "was", "were", "be", "been",
    "being", "have", "has", "had", "do", "does", "did", "will", "would",
    "could", "should", "may", "might", "must", "can", "this", "that",
    "these", "those", "i", "you", "he", "she", "it", "we", "they", "my",
    "your", "his", "her", "its", "our", "their", "what", "which", "who",
    "when", "where", "why", "how", "all", "each", "every", "both", "few",
    "more", "most", "other", "some", "such", "no", "not", "only", "same",
    "so", "than", "too", "very", "just", "also", "now", "here", "there",
    "about", "into", "over", "after", "before", "up", "down", "out", "off",
    "if", "then", "else", "because", "as", "until", "while", "during",
    "through", "again", "once", "any", "get", "got", "like", "know", "think",
    "want", "need", "use", "using", "used", "new", "first", "last", "one",
    "two", "way", "even", "well", "back", "still", "going", "make", "made",
    "anyone", "someone", "everyone", "something", "anything", "everything",
    "really", "much", "many", "dont", "don't", "im", "i'm", "ive", "i've" }

\* the word the regular expression finds in one lowercased token
RegexWord(t) ==
  CASE t = "don't" -> "don"
    [] t = "can't" -> "can"
    [] t = "doesn't" -> "doesn"
    [] t = "what's" -> "what"
    [] OTHER -> t

TitleWords(title) ==
  LET low   == LowerText(title)
      found == SelectSeq(low, LAMBDA t : t \notin NoWordTokens /\ t # "i'm")
      words == [k \in 1..Len(found) |-> RegexWord(found[k])]
  IN SelectSeq(words, LAMBDA w : w \notin stopwords)

\* counter[w] += 1: a Counter keeps its keys in first-insertion order
CounterAdd(counter, w) ==
  LET at == {k \in 1..Len(counter) : counter[k].word = w}
  IN IF at = {} THEN Append(counter, [word |-> w, count |-> 1])
     ELSE [k \in 1..Len(counter) |->
             IF k \in at THEN [word |-> w, count |-> counter[k].count + 1]
             ELSE counter[k]]

\* Counter.update(words), word by word; each intermediate counter is
\* evaluated once
RECURSIVE CounterUpdate(_, _)
CounterUpdate(counter, words) ==
  IF words = <<>> THEN counter
  ELSE CHOOSE r \in {CounterUpdate(c, Tail(words)) : c \in {CounterAdd(counter, Head(words))}} : TRUE

CountOf(entry) == entry.count

\* A variant that returns the first n keys of the counter.
MostCommonUnsorted(counter, n) ==
  LET first == Take(counter, n)
  IN [k \in 1..Len(first) |-> first[k].word]

\* Counter.most_common(n): by count, descending; equal counts in insertion order
MostCommon(counter, n) ==
  CHOOSE r \in { [k \in 1..Len(Take(sorted, n)) |-> sorted[k].word] :
                   sorted \in {StableSortDesc(counter, [k \in 1..Len(counter) |-> CountOf(counter[k])])} } :
     TRUE

(***************************************************************************)
(* RedditAPIClient: the requests it builds, and the replies of the         *)
(* collaborator behind _request.  A reply is an error indicator or data;   *)
(* the collaborator returns at most as many records as a request's limit   *)
(* parameter, when the request carries one.                                *)
(***************************************************************************)
\* RedditAPIClient.search_subreddits / search
SearchSubredditsRequest(query, limit) ==
  [ endpoint |-> "/v1/reddit/search", search |-> query, type |-> "subreddits",
    sort |-> "relevance", time |-> "all", limit |-> limit ]

\* RedditAPIClient.get_top_posts_year / get_posts: limit and time_filter are
\* not put into params
GetTopPostsYearRequest(subreddit, limit) ==
  [ endpoint |-> "/v1/reddit/posts", url |-> <<"https://www.reddit.com/r/", subreddit>>,
    filter |-> "top" ]

SubredditPool ==
  { [name |-> "x", subscribers |-> 1, public_description |-> <<"p">>],
    [name |-> "x", subscribers |-> 2, public_description |-> <<"q">>],
    [name |-> "y", subscribers |-> 2, public_description |-> <<"p">>],
    [name |-> "",  subscribers |-> 3, public_description |-> <<"q">>] }

PostPool ==
  { [ id |-> "p1", score |-> 5, num_comments |-> 0, url |-> "", created_utc |-> 0,
      title    |-> <<"how", " ", "to", " ", "export", "?">>,
      selftext |-> <<"I", " ", "Hate", " ", "this", ".", " ", "IMO", " ", "export", ".", " ",
                       "recommend", " ", "tools">> ],
    [ id |-> "p2", score |-> 7, num_comments |-> 0, url |-> "", created_utc |-> 0,
      title    |-> <<"export", " ", "wish", " ", "list">>,
      selftext |-> <<>> ] }

\* Records of a collaborator that leaves fields out, or nests a record
\* under the key 'data'.
MalformedSubredditPool ==
  { [name |-> "x"],
    [subscribers |-> 3, public_description |-> <<"q">>],
    [data |-> [display_name |-> "y", subscribers |-> 2]] }

MalformedPostPool ==
  { [title |-> <<"export", " ", "wish", " ", "list">>],
    [data |-> [id |-> "p3", score |-> 4, num_comments |-> 1, created_utc |-> 9,
               selftext |-> <<"I", " ", "Hate", " ", "this">>]] }

\* Communities whose listings, in descending score order as a 'top' listing
\* is, may be longer than what analyze_subreddit keeps: a run of posts of
\* score 7, then possibly one of score 6 and one of score 5.
LongSubredditPool ==
  { [name |-> "x", subscribers |-> 1, public_description |-> <<"p">>],
    [name |-> "y", subscribers |-> 2, public_description |-> <<"p">>] }

LowPost == CHOOSE p \in PostPool : p.id = "p1"

HighPost == CHOOSE p \in PostPool : p.id = "p2"

MidPost == [HighPost EXCEPT !.id = "p5", !.score = 6]

\* another post of score 6, with a title of its own
TiePost == [MidPost EXCEPT !.id = "p6", !.title = <<"crm", " ", "crm", " ", "crm">>]

LongListings ==
  {[k \in 1..n |-> HighPost] \o t :
     n \in {0, TopPostsPerSubreddit - 1, TopPostsPerSubreddit},
     t \in {<<>>, <<MidPost>>, <<LowPost>>, <<MidPost, LowPost>>,
            <<MidPost, TiePost>>, <<TiePost, MidPost>>}}

SubredditPoolOf(c) ==
  CASE c = "malformed" -> MalformedSubredditPool
    [] c = "long_listing" -> LongSubredditPool
    [] OTHER -> SubredditPool

\* Posts of a collaborator that serves a title of null.
NullTitlePostPool ==
  { [ id |-> "p7", score |-> 3, num_comments |-> 0, url |-> "", created_utc |-> 0,
      title |-> None, selftext |-> <<>> ],
    HighPost }

\* A post for each label of the classifier, and one with a title of null.
LabelledPostPool ==
  { [LowPost EXCEPT !.id = "q", !.title = <<"how", " ", "to", " ", "export">>],
    [LowPost EXCEPT !.id = "c", !.title = <<"Hate", " ", "export">>],
    [LowPost EXCEPT !.id = "r", !.title = <<"export", " ", "wish", " ", "list">>],
    [LowPost EXCEPT !.id = "s", !.title = <<"I", " ", "made", " ", "tools">>],
    [LowPost EXCEPT !.id = "d", !.title = <<"best", " ", "crm">>],
    [LowPost EXCEPT !.id = "n", !.title = None] }

PostPoolOf(c) ==
  CASE c = "malformed" -> MalformedPostPool
    [] c = "null_title" -> NullTitlePostPool
    [] c = "labelled" -> LabelledPostPool
    [] OTHER -> PostPool

\* post.get('data', post)
PostData(post) == DictGet(post, "data", post)

\* the dict get_top_posts builds of one post of a reply
ProcessedPost(post, subreddit) ==
  LET post_data == PostData(post)
  IN [ id           |-> DictGet(post_data, "id", ""),
       title        |-> DictGet(post_data, "title", <<>>),
       selftext     |-> DictGet(post_data, "selftext", <<>>),
       score        |-> DictGet(post_data, "score", 0),
       num_comments |-> DictGet(post_data, "num_comments", 0),
       url          |-> DictGet(post_data, "url", ""),
       created_utc  |-> DictGet(post_data, "created_utc", 0),
       subreddit    |-> subreddit ]

\* The classification of the pools' posts, tabulated once: analyze_post,
\* categorize_post_by_intent and the title words of extract_common_themes
\* read only a post's title and selftext.
TextOf(post) == [title |-> post.title, selftext |-> post.selftext]

PostTexts == {TextOf(ProcessedPost(p, "")) : p \in PostPool \cup MalformedPostPool \cup NullTitlePostPool \cup LabelledPostPool
           \cup {TiePost}}

AnalyzePostTable == [t \in PostTexts |-> AnalyzePost(t)]

IntentTable == [t \in PostTexts |-> CategorizePostByIntent(t)]

\* the titles given to extract_common_themes in a direct call
ThemeTitles ==
  { <<"crm", " ", "export", " ", "tools">>,
    <<"best", " ", "crm">>,
    <<"how", " ", "to", " ", "export", " ", "crm", "?">>,
    <<"Hate", " ", "crm", " ", "crm">>,
    <<"I", " ", "made", " ", "tools">> }

TitleWordsTable == [t \in {x.title : x \in PostTexts} \cup ThemeTitles |-> TitleWords(t)]

\* _request answers {"error": ..., "status": "failed"} for a failed call; a
\* reply may also carry the key "error" next to data
ErrorReplies(pool) ==
  {[error |-> TRUE, items |-> <<>>]} \cup {[error |-> TRUE, items |-> <<x>>] : x \in pool}

ReplyLimit(request, bound) ==
  IF "limit" \in DOMAIN request THEN Min(request.limit, bound) ELSE bound

SearchReplies(request, c) ==
  ErrorReplies(SubredditPoolOf(c)) \cup
  {[error |-> FALSE, items |-> q] :
     q \in SeqsUpTo(SubredditPoolOf(c), ReplyLimit(request, MaxSearchResults))}

PostsReplies(request, c) ==
  ErrorReplies(PostPoolOf(c)) \cup
  {[error |-> FALSE, items |-> q] :
     q \in IF c = "long_listing" THEN LongListings
           ELSE SeqsUpTo(PostPoolOf(c), ReplyLimit(request, MaxPostsInResponse))}

\* NicheAnalyzer.extract_common_themes
\* word_counts = Counter()
NewCounter == <<>>

\* the loop `for post in posts` of extract_common_themes
WordCounts(posts) ==
  CounterUpdate(NewCounter,
                Flatten([k \in 1..Len(posts) |-> TitleWordsTable[DictGet(posts[k], "title", <<>>)]]))

ExtractCommonThemes(posts, top_n) == MostCommon(WordCounts(posts), top_n)

(***************************************************************************)
(* NicheResearcher.discover_subreddits                                     *)
(***************************************************************************)
\* A variant that queries every variation.
QueriedVariationsAll(vs) == vs

\* variations[:5]
QueriedVariations(vs) == Take(vs, MaxVariationsQueried)

Names(subs) == {subs[k].name : k \in 1..Len(subs)}

\* sub.get('data', sub)
SubData(sub) == DictGet(sub, "data", sub)

\* A variant that reads 'display_name' only.
NameOfDisplayOnly(sub) == DictGet(SubData(sub), "display_name", "")

\* sub_data.get('display_name') or sub_data.get('name', ''): None and '' are
\* both falsy
NameOf(sub) ==
  LET display_name == DictGet(SubData(sub), "display_name", "")
  IN IF display_name # "" THEN display_name ELSE DictGet(SubData(sub), "name", "")

SubredditEntry(sub) ==
  [ name        |-> NameOf(sub),
    subscribers |-> DictGet(SubData(sub), "subscribers", 0),
    description |-> Take(DictGet(SubData(sub), "public_description", <<>>), DescriptionLimit),
    url         |-> <<"https://reddit.com/r/", NameOf(sub)>> ]

\* A variant that collects the candidates in a list, without the membership test.
RECURSIVE MergeSubredditsList(_, _)
MergeSubredditsList(all, subs) ==
  IF subs = <<>> THEN all
  ELSE MergeSubredditsList(
         IF NameOf(Head(subs)) # "" THEN Append(all, SubredditEntry(Head(subs))) ELSE all,
         Tail(subs))

\* A variant that assigns all_subreddits[name] without the membership test:
\* a later occurrence overwrites the entry.
RECURSIVE MergeSubredditsOverwrite(_, _)
MergeSubredditsOverwrite(all, subs) ==
  IF subs = <<>> THEN all
  ELSE LET sub == Head(subs)
       IN MergeSubredditsOverwrite(
            IF NameOf(sub) = "" THEN all
            ELSE IF NameOf(sub) \in Names(all)
                 THEN [k \in 1..Len(all) |->
                         IF all[k].name = NameOf(sub) THEN SubredditEntry(sub) ELSE all[k]]
                 ELSE Append(all, SubredditEntry(sub)),
            Tail(subs))

\* the loop `for sub in subreddits` over one reply
RECURSIVE MergeSubreddits(_, _)
MergeSubreddits(all, subs) ==
  IF subs = <<>> THEN all
  ELSE LET sub == Head(subs)
           name == NameOf(sub)
       IN MergeSubreddits(
            IF name # "" /\ name \notin Names(all)
            THEN Append(all, SubredditEntry(sub))
            ELSE all,
            Tail(subs))

\* A variant without the test for the error indicator.
MergeReplyNoErrorCheck(all, reply) == MergeSubreddits(all, reply.items)

\* what one search reply does to all_subreddits
MergeReply(all, reply) ==
  IF reply.error THEN all ELSE MergeSubreddits(all, reply.items)

\* A variant that searches a variation again when its search failed.
NextVariationRetry(k, reply) == IF reply.error THEN k ELSE k + 1

\* whether the iteration reaches time.sleep(0.5): `continue` skips it
PauseAfter(reply) == ~reply.error

\* the index of the next variation after a reply
NextVariation(k, reply) == k + 1

\* x.get('subscribers', 0)
Subscribers(sub) == DictGet(sub, "subscribers", 0)

\* A variant whose sort puts posts of equal score in reverse order.
SortPostsTiesReversed(posts) ==
  Reverse(StableSortDesc(posts, [k \in 1..Len(posts) |-> 0 - DictGet(posts[k], "score", 0)]))

\* A variant without the check for an empty discovery.
AfterDiscoveryNoCheck(subs) == "AnalyzingCommunity"

\* research_niche: `if not subreddits: return None`
AfterDiscovery(subs) == IF subs = <<>> THEN "Aborted" ELSE "AnalyzingCommunity"

\* A variant that leaves the loop after the first community.
AfterCommunityEarlyExit(k, subs, max) == "Aggregating"

\* research_niche: `for sub in subreddits[:max_subreddits]`, k the next index
AfterCommunity(k, subs, max) ==
  IF k > Len(Take(subs, max)) THEN "Aggregating" ELSE "AnalyzingCommunity"

\* A variant that truncates without sorting.
SortedSubredditsUnsorted(all, max) == Take(all, max)

\* sorted(all_subreddits.values(), key=subscribers, reverse=True)[:max_subreddits]
SortedSubreddits(all, max) == Take(StableSortDesc(all, [k \in 1..Len(all) |-> Subscribers(all[k])]), max)

(***************************************************************************)
(* NicheResearcher.get_top_posts, analyze_subreddit                        *)
(***************************************************************************)
ProcessedPosts(posts, subreddit) ==
  [k \in 1..Len(posts) |-> ProcessedPost(posts[k], subreddit)]

\* A variant without the test for the error indicator.
GetTopPostsNoErrorCheck(reply, subreddit) == ProcessedPosts(reply.items, subreddit)

GetTopPosts(reply, subreddit) ==
  IF reply.error THEN <<>> ELSE ProcessedPosts(reply.items, subreddit)

Intents == {"question", "complaint", "request", "showcase", "discussion"}

EmptyInsights ==
  [pain_points |-> <<>>, questions |-> <<>>, requests |-> <<>>, solutions |-> <<>>, beliefs |-> <<>>]

\* the loop `for post in posts` of analyze_subreddit: the insights
RECURSIVE ExtendInsights(_, _)
ExtendInsights(acc, posts) ==
  IF posts = <<>> THEN acc
  ELSE LET pi == AnalyzePostTable[TextOf(Head(posts))]
       IN ExtendInsights([key \in DOMAIN acc |-> acc[key] \o pi[key]], Tail(posts))

\* the exception the loop `for post in posts` of analyze_subreddit raises:
\* categorize_post_by_intent is called on every post, outside any try
AnalyzeSubredditRaises(posts) ==
  IF \E k \in 1..Len(posts) : CategorizeRaises(posts[k]) # "" THEN "AttributeError" ELSE ""

\* A variant whose post_categories leaves 'discussion' at 0.
AnalyzeSubredditSkipsDiscussion(subreddit, posts) ==
  [ subreddit       |-> subreddit,
    posts_analyzed  |-> Len(posts),
    top_posts       |-> Take(posts, TopPostsPerSubreddit),
    post_categories |-> [c \in Intents |->
                           IF c = "discussion" THEN 0
                           ELSE Cardinality({k \in 1..Len(posts) : IntentTable[TextOf(posts[k])] = c})],
    insights        |-> ExtendInsights(EmptyInsights, posts),
    themes          |-> ExtractCommonThemes(posts, TopThemes) ]

AnalyzeSubreddit(subreddit, posts) ==
  [ subreddit       |-> subreddit,
    posts_analyzed  |-> Len(posts),
    top_posts       |-> Take(posts, TopPostsPerSubreddit),
    post_categories |-> [c \in Intents |->
                           Cardinality({k \in 1..Len(posts) : IntentTable[TextOf(posts[k])] = c})],
    insights        |-> ExtendInsights(EmptyInsights, posts),
    themes          |-> ExtractCommonThemes(posts, TopThemes) ]

NoAnalysis == AnalyzeSubreddit("", <<>>)

(***************************************************************************)
(* NicheResearcher.research_niche: aggregation                             *)
(***************************************************************************)
EmptyInsightCategory ==
  [ pain_points |-> <<>>, questions |-> <<>>, frustrations |-> <<>>, requests |-> <<>>,
    solutions_mentioned |-> <<>>, beliefs |-> <<>>, perspectives |-> <<>> ]

\* A variant that extends the beliefs with the solutions and the solutions
\* with the beliefs.
AccumulateCrossed(all, insights) ==
  [all EXCEPT !.pain_points = @ \o insights.pain_points,
              !.questions = @ \o insights.questions,
              !.requests = @ \o insights.requests,
              !.solutions_mentioned = @ \o insights.beliefs,
              !.beliefs = @ \o insights.solutions]

\* all_insights.<bucket>.extend(insights.get(<key>, []))
Accumulate(all, insights) ==
  [all EXCEPT !.pain_points = @ \o insights.pain_points,
              !.questions = @ \o insights.questions,
              !.requests = @ \o insights.requests,
              !.solutions_mentioned = @ \o insights.solutions,
              !.beliefs = @ \o insights.beliefs]

\* A variant whose slice starts at index 1: list(set(bucket))[1:cap + 1].
DedupCapSliceFromOne(bucket, cap, s) == SubSeq(HashOrder(Range(bucket), s), 2, Min(cap + 1, Cardinality(Range(bucket))))

\* A variant that truncates without removing duplicates.
DedupCapNoDedup(bucket, cap, s) == Take(bucket, cap)

\* list(set(bucket))[:cap]
DedupCap(bucket, cap, s) == Take(HashOrder(Range(bucket), s), cap)

Finalize(all, s) ==
  [all EXCEPT !.pain_points = DedupCap(@, CapLarge, s),
              !.questions = DedupCap(@, CapLarge, s),
              !.requests = DedupCap(@, CapLarge, s),
              !.solutions_mentioned = DedupCap(@, CapSmall, s),
              !.beliefs = DedupCap(@, CapSmall, s)]

(***************************************************************************)
(* research_crm_network.run_research and research_watermark.run_research:  *)
(* the deduplication of the insights.                                      *)
(***************************************************************************)
Scripts == {"crm_network", "watermark"}

ScriptCap(script) == IF script = "crm_network" THEN CrmNetworkCap ELSE WatermarkCap

\* for key in all_insights: all_insights[key] = list(set(all_insights[key]))[:cap]
ScriptFinalize(script, insights, s) ==
  [key \in DOMAIN insights |-> DedupCap(insights[key], ScriptCap(script), s)]

\* Counter(all_themes).most_common(20)
TopThemeList(themes) == MostCommon(CounterUpdate(<<>>, themes), TopThemes)

\* pain[:100] and the like cut at characters; the fragments of the model are
\* shorter than that, or made of tokens of one character
Opportunity(type, prefix, fragment) ==
  [ type |-> type, signal |-> fragment,
    opportunity |-> <<prefix>> \o Take(fragment, OpportunityTextLimit) \o <<"...">> ]

\* A variant that goes through the requests before the questions.
GenerateSaasOpportunitiesRequestsFirst(insights) ==
  LET pains == Take(insights.pain_points, OpportunitiesPerBucket)
      quests == Take(insights.questions, OpportunitiesPerBucket)
      reqs == Take(insights.requests, OpportunitiesPerBucket)
  IN [k \in 1..Len(pains) |-> Opportunity("pain_point", "Tool to address: ", pains[k])]
     \o [k \in 1..Len(reqs) |-> Opportunity("feature_request", "Build feature: ", reqs[k])]
     \o [k \in 1..Len(quests) |-> Opportunity("question", "Solution that answers: ", quests[k])]

\* NicheAnalyzer.generate_saas_opportunities
GenerateSaasOpportunities(insights) ==
  LET pains == Take(insights.pain_points, OpportunitiesPerBucket)
      quests == Take(insights.questions, OpportunitiesPerBucket)
      reqs == Take(insights.requests, OpportunitiesPerBucket)
  IN [k \in 1..Len(pains) |-> Opportunity("pain_point", "Tool to address: ", pains[k])]
     \o [k \in 1..Len(quests) |-> Opportunity("question", "Solution that answers: ", quests[k])]
     \o [k \in 1..Len(reqs) |-> Opportunity("feature_request", "Build feature: ", reqs[k])]

\* x.get('score', 0)
Score(post) == DictGet(post, "score", 0)

\* all_posts.sort(key=score, reverse=True)
SortPosts(posts) == StableSortDesc(posts, [k \in 1..Len(posts) |-> Score(posts[k])])

EmptyReport ==
  [ niche |-> <<>>, subreddits_found |-> <<>>, total_posts_analyzed |-> 0, top_posts |-> <<>>,
    pain_points |-> <<>>, questions |-> <<>>, frustrations |-> <<>>, requests |-> <<>>,
    solutions_mentioned |-> <<>>, beliefs |-> <<>>, common_themes |-> <<>>,
    saas_opportunities |-> <<>> ]

(***************************************************************************)
(* One run of research_niche(niche, max_subreddits, posts_per_subreddit).  *)
(***************************************************************************)
Niches == { <<"a"," ","a">>, <<" ","A","s">> }

VARIABLES
  pc,                  \* Discovering, AnalyzingCommunity, Aggregating, Done, Aborted, Raised
  niche, max_subreddits, posts_per_subreddit,   \* the arguments
  seed,                \* the interpreter's hash seed
  variations,          \* discover_subreddits: generate_niche_variations(niche)
  vi,                  \* discover_subreddits: index of the next variation
  result,              \* discover_subreddits: the reply of the last search
  paused,              \* discover_subreddits: the last iteration ended in time.sleep(0.5)
  all_subreddits,      \* discover_subreddits: the merge map, in insertion order
  searched,            \* the queries of the community-search calls made
  subreddits,          \* what discover_subreddits returned
  si,                  \* research_niche: index of the next community
  fetched,             \* the content fetches made: community and outcome
  analysis,            \* the last result of analyze_subreddit
  total_posts, all_posts, all_themes, all_insights,
  report,              \* the ResearchReport, once assembled
  returned,            \* pending, None, report, or the exception that left research_niche
  collaborator,        \* the data the scraping collaborator serves
  targeted,            \* a run of a targeted script's run_research
  call                 \* a direct call of a NicheAnalyzer or NicheResearcher function

vars == << pc, niche, max_subreddits, posts_per_subreddit, seed, variations, vi, result, paused,
           all_subreddits, searched, subreddits, si, fetched, analysis,
           total_posts, all_posts, all_themes, all_insights, report, returned,
           collaborator, targeted, call >>

\* the variables of a run of research_niche
research_vars ==
  << pc, niche, max_subreddits, posts_per_subreddit, seed, variations, vi, result, paused,
     all_subreddits, searched, subreddits, si, fetched, analysis,
     total_posts, all_posts, all_themes, all_insights, report, returned, collaborator,
     targeted >>

NoCall == [op |-> "", args |-> <<>>, raised |-> "", ret |-> <<>>]

\* no targeted script is run
NoScript == [name |-> ""]

NoReply == [error |-> FALSE, items |-> <<>>]

\* The hash orders a run is followed under. Hash order decides only the order
\* of list(set(variations)); the runs against a collaborator that leaves
\* fields out, or serves a null, and the runs of the targeted scripts are
\* followed under one order.
SeedsOf(c) == IF c \in {"malformed", "null_title", "targeted"} THEN {0} ELSE 0..MaxSeed

\* the start of a run of research_niche against the collaborator c
InitWith(c) ==
  /\ collaborator = c
  /\ call = NoCall
  /\ targeted = NoScript
  /\ pc = "Discovering"
  /\ niche \in Niches
  /\ max_subreddits \in 1..MaxSubredditsArg
  /\ posts_per_subreddit \in 1..MaxPostLimit
  /\ seed \in SeedsOf(c)
  /\ variations = GenerateNicheVariations(niche, seed)
  /\ vi = 1
  /\ result = NoReply
  /\ paused = FALSE
  /\ all_subreddits = <<>>
  /\ searched = <<>>
  /\ subreddits = <<>>
  /\ si = 1
  /\ fetched = <<>>
  /\ analysis = NoAnalysis
  /\ total_posts = 0
  /\ all_posts = <<>>
  /\ all_themes = <<>>
  /\ all_insights = EmptyInsightCategory
  /\ report = EmptyReport
  /\ returned = "pending"

Init == InitWith("well_formed")

\* one iteration of `for variation in variations[:5]`
SearchVariation ==
  /\ pc = "Discovering"
  /\ vi <= Len(QueriedVariations(variations))
  /\ LET variation == QueriedVariations(variations)[vi]
     IN \E reply \in SearchReplies(SearchSubredditsRequest(variation, SearchLimit), collaborator) :
          /\ result' = reply
          /\ searched' = Append(searched, variation)
          /\ all_subreddits' = MergeReply(all_subreddits, reply)
          /\ vi' = NextVariation(vi, reply)
          /\ paused' = PauseAfter(reply)
  /\ UNCHANGED << pc, niche, max_subreddits, posts_per_subreddit, seed, variations, subreddits, si,
                  fetched, analysis, total_posts, all_posts, all_themes, all_insights,
                  report, returned, collaborator, targeted, call >>

\* discover_subreddits returns; research_niche returns None when it got nothing
DiscoverReturn ==
  /\ pc = "Discovering"
  /\ vi > Len(QueriedVariations(variations))
  /\ subreddits' = SortedSubreddits(all_subreddits, max_subreddits)
  /\ result' = NoReply
  /\ paused' = FALSE
  /\ pc' = AfterDiscovery(subreddits')
  /\ returned' = IF pc' = "Aborted" THEN "None" ELSE returned
  /\ UNCHANGED << niche, max_subreddits, posts_per_subreddit, seed, variations, vi,
                  all_subreddits, searched, si, fetched, analysis, total_posts, all_posts, all_themes,
                  all_insights, report, collaborator, targeted, call >>

\* one iteration of `for sub in subreddits[:max_subreddits]`
AnalyzeCommunity ==
  /\ pc = "AnalyzingCommunity"
  /\ si <= Len(Take(subreddits, max_subreddits))
  /\ LET sub == subreddits[si]
     IN \E reply \in PostsReplies(GetTopPostsYearRequest(sub.name, posts_per_subreddit), collaborator) :
          /\ fetched' = Append(fetched, [ subreddit |-> sub.name, error |-> reply.error,
                                           items |-> IF reply.error THEN <<>> ELSE reply.items ])
          /\ IF AnalyzeSubredditRaises(GetTopPosts(reply, sub.name)) # ""
             THEN \* the exception leaves analyze_subreddit and research_niche
                  /\ pc' = "Raised"
                  /\ returned' = AnalyzeSubredditRaises(GetTopPosts(reply, sub.name))
                  /\ UNCHANGED << analysis, total_posts, all_posts, all_themes, all_insights, si >>
             ELSE /\ analysis' = AnalyzeSubreddit(sub.name, GetTopPosts(reply, sub.name))
                  /\ total_posts' = total_posts + analysis'.posts_analyzed
                  /\ all_posts' = all_posts \o analysis'.top_posts
                  /\ all_themes' = all_themes \o analysis'.themes
                  /\ all_insights' = Accumulate(all_insights, analysis'.insights)
                  /\ si' = si + 1
                  /\ pc' = AfterCommunity(si', subreddits, max_subreddits)
                  /\ returned' = returned
  /\ UNCHANGED << niche, max_subreddits, posts_per_subreddit, seed, variations, vi, result,
                  paused, all_subreddits, searched, subreddits, report, collaborator, targeted, call >>

\* steps 3 and 4 of research_niche, the sort of the posts and the report
Aggregate ==
  /\ pc = "Aggregating"
  /\ all_insights' = Finalize(all_insights, seed)
  /\ all_posts' = SortPosts(all_posts)
  /\ report' = [ niche                |-> niche,
                 subreddits_found     |-> subreddits,
                 total_posts_analyzed |-> total_posts,
                 top_posts            |-> Take(all_posts', TopPostsInReport),
                 pain_points          |-> all_insights'.pain_points,
                 questions            |-> all_insights'.questions,
                 frustrations         |-> all_insights'.frustrations,
                 requests             |-> all_insights'.requests,
                 solutions_mentioned  |-> all_insights'.solutions_mentioned,
                 beliefs              |-> all_insights'.beliefs,
                 common_themes        |-> TopThemeList(all_themes),
                 saas_opportunities   |-> GenerateSaasOpportunities(all_insights') ]
  /\ returned' = "report"
  /\ pc' = "Done"
  /\ UNCHANGED << niche, max_subreddits, posts_per_subreddit, seed, variations, vi, result,
                  paused, all_subreddits, searched, subreddits, si, fetched, analysis,
                  total_posts, all_themes, collaborator, targeted, call >>

Next == SearchVariation \/ DiscoverReturn \/ AnalyzeCommunity \/ Aggregate

Spec == Init /\ [][Next]_vars

\* the same run against a collaborator that leaves fields out
SpecMalformed == InitWith("malformed") /\ [][Next]_vars

\* the interpreter goes on executing the run: a step that can be taken is taken
SpecMalformedFair == SpecMalformed /\ WF_vars(Next)

\* the same run against a community with a long listing
SpecLongListing == InitWith("long_listing") /\ [][Next]_vars

\* the same run against a collaborator that serves a title of null
SpecNullTitle == InitWith("null_title") /\ [][Next]_vars

(***************************************************************************)
(* Direct calls of the library functions, one call per behaviour, on       *)
(* arguments drawn from bounded sets; no research run is in progress.      *)
(***************************************************************************)
\* words and phrases a title is made of
TitleChunks ==
  { <<"how", " ", "to">>, <<"?">>, <<"Hate">>, <<"wish">>, <<"I", " ", "made">>,
    <<"hi", " ", "made">>, <<"export">> }

\* ' '.join(chunks)
RECURSIVE JoinChunks(_)
JoinChunks(chunks) ==
  IF chunks = <<>> THEN <<>>
  ELSE IF Len(chunks) = 1 THEN chunks[1]
  ELSE chunks[1] \o <<" ">> \o JoinChunks(Tail(chunks))

Titles == {JoinChunks(q) : q \in SeqsUpTo(TitleChunks, MaxTitleChunks)}

InitCalls ==
  /\ call = NoCall
  /\ targeted = NoScript
  /\ pc = "Idle"
  /\ collaborator = "well_formed"
  /\ niche = <<>> /\ max_subreddits = 0 /\ posts_per_subreddit = 0
  /\ seed \in 0..MaxSeed
  /\ variations = <<>> /\ vi = 1 /\ result = NoReply /\ paused = FALSE
  /\ all_subreddits = <<>> /\ searched = <<>> /\ subreddits = <<>>
  /\ si = 1 /\ fetched = <<>> /\ analysis = NoAnalysis
  /\ total_posts = 0 /\ all_posts = <<>> /\ all_themes = <<>>
  /\ all_insights = EmptyInsightCategory
  /\ report = EmptyReport /\ returned = "pending"

\* the sentences a body is made of
Sentences ==
  { <<"I", " ", "Hate", " ", "this">>, <<"recommend", " ", "tools">>,
    <<"I", " ", "think", " ", "we", " ", "need", " ", "export">>, <<"export">> }

\* '. '.join(sentences)
RECURSIVE JoinSentences(_)
JoinSentences(sentences) ==
  IF sentences = <<>> THEN <<>>
  ELSE IF Len(sentences) = 1 THEN sentences[1]
  ELSE sentences[1] \o <<".", " ">> \o JoinSentences(Tail(sentences))

Bodies == {JoinSentences(q) : q \in SeqsUpTo(Sentences, MaxBodySentences)}

\* The dicts with a subset of the keys, the key k holding a value of values[k].
Dicts(keys, values) ==
  UNION {[present -> UNION {values[k] : k \in present}] : present \in SUBSET keys}

DictsOf(keys, values) ==
  {d \in Dicts(keys, values) : \A k \in DOMAIN d : d[k] \in values[k]}

\* texts with each of the four delimiters, runs of delimiters, and segments
\* of whitespace only
DelimitedTexts ==
  { <<"how", " ", "to", " ", "export", "?", " ", "NL", " ", "Hate", " ", "this", "!",
      " ", " ", ".", " ", "wish">>,
    <<"recommend", " ", "tools", "NL", "NL", "how", " ", "to", "?", "?", " ">> }

\* post records whose title and body are absent, null, empty or a string
PostRecords ==
  DictsOf({"title", "selftext", "body"},
          [ title    |-> {None, <<>>} \cup {JoinChunks(<<c>>) : c \in TitleChunks} \cup DelimitedTexts,
            selftext |-> {None, <<>>} \cup Bodies \cup DelimitedTexts,
            body     |-> {None, <<"I", " ", "Hate", " ", "this">>} ])

TitleRecords == DictsOf({"title"}, [title |-> {None} \cup Titles])

CommentRecords ==
  DictsOf({"body", "text"},
          [ body |-> {None, <<>>, <<"I", " ", "Hate", " ", "this", "!", " ", "export">>},
            text |-> {<<"recommend", " ", "tools">>} ])

\* analyzer.analyze_post(post)
AnalyzePostCall ==
  /\ pc = "Idle" /\ call = NoCall
  /\ \E post \in PostRecords :
        call' = [op |-> "analyze_post", args |-> post, raised |-> "", ret |-> AnalyzePost(post)]
  /\ UNCHANGED research_vars

\* analyzer.analyze_comments(comments)
AnalyzeCommentsCall ==
  /\ pc = "Idle" /\ call = NoCall
  /\ \E comments \in SeqsUpTo(CommentRecords, MaxComments) :
        call' = [ op |-> "analyze_comments", args |-> comments, raised |-> "",
                  ret |-> AnalyzeComments(comments) ]
  /\ UNCHANGED research_vars

\* analyzer.categorize_post_by_intent(post)
CategorizeCall ==
  /\ pc = "Idle" /\ call = NoCall
  /\ \E post \in TitleRecords :
        call' = [ op |-> "categorize_post_by_intent", args |-> post,
                  raised |-> CategorizeRaises(post),
                  ret |-> IF CategorizeRaises(post) = "" THEN CategorizePostByIntent(post)
                          ELSE <<>> ]
  /\ UNCHANGED research_vars

\* a fragment of k words
Fragment(k) == [j \in 1..k |-> "w"]

\* an accumulated bucket: d fragments that come again later, then n distinct
\* fragments
BucketOf(n, d) == [k \in 1..Min(n, d) |-> Fragment(k)] \o [k \in 1..n |-> Fragment(k)]

\* bucket sizes at and around the caps
BucketSizes ==
  {0, 1} \cup ((CapSmall - 1)..(CapSmall + MaxOverCap)) \cup ((CapLarge - 1)..(CapLarge + MaxOverCap))

\* step 3 of research_niche, applied to accumulated buckets
FinalizeCall ==
  /\ pc = "Idle" /\ call = NoCall
  /\ \E n \in BucketSizes, m \in BucketSizes, d \in 0..1 :
        LET accumulated == [EmptyInsightCategory EXCEPT
                              !.pain_points = BucketOf(n, d),
                              !.questions = BucketOf(m, d),
                              !.requests = BucketOf(n, 0),
                              !.solutions_mentioned = BucketOf(n, d),
                              !.beliefs = BucketOf(m, d)]
        IN call' = [ op |-> "finalize", args |-> accumulated, raised |-> "",
                     ret |-> Finalize(accumulated, seed) ]
  /\ UNCHANGED research_vars

\* step 3 of research_niche, applied a second time to its own result
FinalizeAgainCall ==
  /\ pc = "Idle" /\ call.op = "finalize"
  /\ call' = [ op |-> "finalize_again", args |-> call.ret, raised |-> "",
                ret |-> Finalize(call.ret, seed), accumulated |-> call.args ]
  /\ UNCHANGED research_vars

\* the deduplication of run_research, applied to accumulated buckets
ScriptFinalizeCall ==
  /\ pc = "Idle" /\ call = NoCall
  /\ \E script \in Scripts, n \in BucketSizes, m \in BucketSizes, d \in 0..1 :
        LET accumulated == [ pain_points |-> BucketOf(n, d), questions |-> BucketOf(m, d),
                             requests |-> BucketOf(n, 0), solutions |-> BucketOf(m, 0),
                             beliefs |-> BucketOf(m, d) ]
        IN call' = [ op |-> "run_research_finalize",
                     args |-> [script |-> script, insights |-> accumulated], raised |-> "",
                     ret |-> ScriptFinalize(script, accumulated, seed) ]
  /\ UNCHANGED research_vars

\* n fragments, of o + 1 .. o + n words
FragmentsFrom(o, n) == [k \in 1..n |-> Fragment(o + k)]

\* bucket sizes at and around the 10 fragments generate_saas_opportunities reads
OpportunitySizes ==
  {0, 1} \cup ((OpportunitiesPerBucket - 1)..(OpportunitiesPerBucket + MaxOverCap))

\* lengths of a long fragment, in characters: at and around the 100 that
\* are kept of it, and around the 100 less the longest template
LongFragmentLengths ==
  {OpportunityTextLimit - 26, OpportunityTextLimit - 25, OpportunityTextLimit,
   OpportunityTextLimit + 1}

\* a leading long fragment of n characters, or none
LongFirst(n) == IF n = 0 THEN <<>> ELSE <<Fragment(n)>>

\* analyzer.generate_saas_opportunities(insights); insights is only read
GenerateOpportunitiesCall ==
  /\ pc = "Idle" /\ call = NoCall
  /\ \E n \in OpportunitySizes, m \in OpportunitySizes, r \in OpportunitySizes, o \in 0..1,
        long \in {0} \cup LongFragmentLengths :
        LET insights == [EmptyInsightCategory EXCEPT
                           !.pain_points = LongFirst(long) \o FragmentsFrom(0, n),
                           !.questions = LongFirst(long) \o FragmentsFrom(1, m),
                           !.requests = LongFirst(long) \o FragmentsFrom(2, r),
                           !.solutions_mentioned = FragmentsFrom(3, o),
                           !.beliefs = FragmentsFrom(4, o)]
        IN call' = [ op |-> "generate_saas_opportunities", args |-> insights, raised |-> "",
                     ret |-> GenerateSaasOpportunities(insights), insights_after |-> insights ]
  /\ UNCHANGED research_vars

EmailMarketing == <<"e","m","a","i","l"," ","m","a","r","k","e","t","i","n","g">>

\* the niche keywords given to generate_niche_variations
NicheInputs == SeqsUpTo({"a", "s", " ", "A"}, MaxNicheLen) \cup {EmailMarketing}

\* researcher.generate_niche_variations(niche)
GenerateVariationsCall ==
  /\ pc = "Idle" /\ call = NoCall
  /\ \E n \in NicheInputs :
        call' = [ op |-> "generate_niche_variations", args |-> n, raised |-> "",
                  ret |-> GenerateNicheVariations(n, seed) ]
  /\ UNCHANGED research_vars

\* researcher.analyze_subreddit(subreddit, post_limit), as cmd_analyze calls
\* it: the requests it makes to the collaborator, the reply, and the result
AnalyzeSubredditCall ==
  /\ pc = "Idle" /\ call = NoCall
  /\ \E subreddit \in {"x"}, post_limit \in 1..MaxPostLimit :
        \E reply \in PostsReplies(GetTopPostsYearRequest(subreddit, post_limit), "labelled") :
           LET posts == GetTopPosts(reply, subreddit)
           IN call' = [ op |-> "analyze_subreddit",
                        args |-> [subreddit |-> subreddit, post_limit |-> post_limit],
                        requests |-> <<GetTopPostsYearRequest(subreddit, post_limit)>>,
                        reply |-> reply,
                        raised |-> AnalyzeSubredditRaises(posts),
                        ret |-> IF AnalyzeSubredditRaises(posts) = ""
                                THEN AnalyzeSubreddit(subreddit, posts) ELSE <<>> ]
  /\ UNCHANGED research_vars

\* posts with a title, and one without
ThemePosts == DictsOf({"title"}, [title |-> ThemeTitles])

\* the values of top_n: small ones and the default
TopNs == (0..MaxTopN) \cup {TopThemes}

\* analyzer.extract_common_themes(posts, top_n)
ExtractThemesCall ==
  /\ pc = "Idle" /\ call = NoCall
  /\ \E posts \in SeqsUpTo(ThemePosts, MaxThemePosts), top_n \in TopNs :
        call' = [ op |-> "extract_common_themes", args |-> [posts |-> posts, top_n |-> top_n],
                  raised |-> "", ret |-> ExtractCommonThemes(posts, top_n) ]
  /\ UNCHANGED research_vars

\* the same call once more, on the same analyzer
ExtractThemesAgainCall ==
  /\ pc = "Idle" /\ call.op = "extract_common_themes"
  /\ call' = [ op |-> "extract_common_themes_again", args |-> call.args, raised |-> "",
                ret |-> ExtractCommonThemes(call.args.posts, call.args.top_n),
                first_ret |-> call.ret ]
  /\ UNCHANGED research_vars

NextCalls ==
  \/ AnalyzePostCall \/ AnalyzeCommentsCall \/ CategorizeCall
  \/ FinalizeCall \/ FinalizeAgainCall \/ ScriptFinalizeCall
  \/ GenerateOpportunitiesCall
  \/ GenerateVariationsCall \/ AnalyzeSubredditCall
  \/ ExtractThemesCall \/ ExtractThemesAgainCall

SpecCalls == InitCalls /\ [][NextCalls]_vars

(***************************************************************************)
(* Properties.                                                             *)
(***************************************************************************)
NoDuplicates(q) == \A a, b \in 1..Len(q) : a # b => q[a] # q[b]

NameSeq(q) == [k \in 1..Len(q) |-> q[k].name]

Terminal == pc \in {"Done", "Aborted"}

\* a community-search call is made in this step
SearchStep == searched' # searched

\* a content fetch is made in this step
FetchStep == fetched' # fetched

\* C1: when discovery found no named community, discover_subreddits returned
\* the empty sequence and research_niche returned None: the run is in Aborted,
\* no report was assembled and no content fetch was made.
C1_NoCommunitiesAborts ==
  (pc # "Discovering" /\ all_subreddits = <<>>) =>
     /\ subreddits = <<>>
     /\ pc = "Aborted"
     /\ returned = "None"
     /\ report = EmptyReport
     /\ fetched = <<>>

\* all five searches failed or came back empty, and the run is over
C1_Witness ==
  /\ pc = "Aborted"
  /\ Len(searched) = MaxVariationsQueried
  /\ all_subreddits = <<>>

\* C2: a run goes Discovering -> AnalyzingCommunity(1..N) -> Aggregating ->
\* Done, or Discovering -> Aborted: every search precedes every fetch, the
\* communities are fetched one at a time in index order with
\* N = Len(subreddits) <= max_subreddits, the report is built only after the
\* last community, Aborted is entered from Discovering only, and nothing
\* happens after Done or Aborted.
C2_PhaseStep ==
  /\ <<pc, pc'>> \in { <<"Discovering", "Discovering">>,
                       <<"Discovering", "AnalyzingCommunity">>,
                       <<"Discovering", "Aborted">>,
                       <<"AnalyzingCommunity", "AnalyzingCommunity">>,
                       <<"AnalyzingCommunity", "Aggregating">>,
                       <<"Aggregating", "Done">> }
  /\ SearchStep => (pc = "Discovering" /\ fetched = <<>> /\ fetched' = <<>>)
  /\ FetchStep => /\ pc = "AnalyzingCommunity"
                  /\ Len(fetched) = si - 1
                  /\ fetched' = Append(fetched, fetched'[si])
                  /\ fetched'[si].subreddit = subreddits[si].name
                  /\ si' = si + 1
                  /\ pc' = IF si = Len(subreddits) THEN "Aggregating" ELSE "AnalyzingCommunity"
  /\ (all_posts' # all_posts \/ all_insights' # all_insights \/ total_posts' # total_posts) =>
        (FetchStep \/ pc = "Aggregating")
  /\ (report' # report \/ returned' = "report" \/ pc = "Aggregating") =>
        /\ pc = "Aggregating" /\ pc' = "Done"
        /\ Len(fetched) = Len(subreddits)
        /\ ~SearchStep /\ ~FetchStep
  /\ ~Terminal

C2_PhaseInv ==
  /\ Len(subreddits) <= max_subreddits
  /\ pc = "Discovering" => (fetched = <<>> /\ subreddits = <<>>)
  /\ pc = "AnalyzingCommunity" => (si \in 1..Len(subreddits) /\ Len(fetched) = si - 1)
  /\ pc \in {"Aggregating", "Done"} => (subreddits # <<>> /\ Len(fetched) = Len(subreddits))
  /\ pc = "Aborted" => (fetched = <<>> /\ subreddits = <<>>)
  /\ (returned = "report") <=> (pc = "Done")
  /\ (returned = "None") <=> (pc = "Aborted")

C2_StateMachine == []C2_PhaseInv /\ [][C2_PhaseStep]_vars

\* a run that analysed two communities and returned its report
C2_Witness == pc = "Done" /\ Len(fetched) = 2 /\ returned = "report"

SomeFetchFailed == \E k \in 1..Len(fetched) : fetched[k].error

\* C3: a content fetch that returns an error indicator adds nothing to
\* total_posts, to the post corpus or to the insight buckets; the loop goes
\* on to the next community (or to aggregation after the last one), every
\* community is fetched, and the run ends in Done with a report.
C3_FailedFetchStep ==
  (FetchStep /\ fetched'[Len(fetched')].error) =>
     /\ analysis'.posts_analyzed = 0
     /\ total_posts' = total_posts
     /\ all_posts' = all_posts
     /\ all_insights' = all_insights
     /\ all_themes' = all_themes
     /\ pc' = IF Len(fetched') < Len(subreddits) THEN "AnalyzingCommunity" ELSE "Aggregating"

C3_FailedFetchInv ==
  SomeFetchFailed =>
     /\ pc \in {"AnalyzingCommunity", "Aggregating", "Done"}
     /\ pc # "Done" => ENABLED Next
     /\ pc = "Done" => /\ returned = "report"
                       /\ Len(fetched) = Len(subreddits)
                       /\ report.total_posts_analyzed = total_posts
                       /\ report.subreddits_found = subreddits

C3_FetchFailureIsolated == []C3_FailedFetchInv /\ [][C3_FailedFetchStep]_vars

\* the first fetch failed, the second community was analysed with posts, the
\* report was returned
C3_Witness ==
  /\ pc = "Done"
  /\ Len(fetched) = 2
  /\ fetched[1].error
  /\ ~fetched[2].error
  /\ report.total_posts_analyzed > 0

\* C4: a search that returns an error indicator leaves all_subreddits as it
\* was and the loop goes on with the next variation; a search that returns
\* data puts every named community of the reply in all_subreddits; at the end
\* all queried variations were searched and the communities found are the
\* ones returned (all of them when they fit in max_subreddits).
C4_SearchStep ==
  SearchStep =>
     /\ searched' = Append(searched, variations[vi])
     /\ result'.error => /\ all_subreddits' = all_subreddits
                         /\ pc' = "Discovering"
                         /\ vi' = vi + 1
     /\ ~result'.error =>
           \A j \in 1..Len(result'.items) :
              result'.items[j].name # "" => result'.items[j].name \in Names(all_subreddits')
     /\ Names(all_subreddits) \subseteq Names(all_subreddits')

C4_SearchInv ==
  pc # "Discovering" =>
     /\ searched = QueriedVariations(variations)
     /\ Names(subreddits) \subseteq Names(all_subreddits)
     /\ Len(all_subreddits) <= max_subreddits => Names(subreddits) = Names(all_subreddits)

C4_SearchFailureIsolated == []C4_SearchInv /\ [][C4_SearchStep]_vars

\* a search failed after candidates were merged, and variations remain
C4_Witness ==
  /\ pc = "Discovering"
  /\ result.error
  /\ all_subreddits # <<>>
  /\ vi <= MaxVariationsQueried

\* C5: neither the merge map nor the sequence discover_subreddits returns
\* holds two candidates of the same name.
C5_NoDuplicateNames ==
  /\ NoDuplicates(NameSeq(all_subreddits))
  /\ NoDuplicates(NameSeq(subreddits))

\* one reply named the same community twice, and it was merged
C5_Witness ==
  /\ pc = "Discovering"
  /\ ~result.error
  /\ Len(result.items) = 2
  /\ result.items[1].name = "x"
  /\ result.items[2].name = "x"
  /\ "x" \in Names(all_subreddits)

\* C6: a search step leaves every entry of all_subreddits as it is, and an
\* entry it adds carries the subscribers and description of the first record
\* of that name in the reply; the returned candidates are entries of the map.
C6_MergeStep ==
  SearchStep =>
     /\ Len(all_subreddits') >= Len(all_subreddits)
     /\ \A k \in 1..Len(all_subreddits) : all_subreddits'[k] = all_subreddits[k]
     /\ \A k \in (Len(all_subreddits) + 1)..Len(all_subreddits') :
           \E j \in 1..Len(result'.items) :
              /\ result'.items[j].name = all_subreddits'[k].name
              /\ \A h \in 1..(j - 1) : result'.items[h].name # all_subreddits'[k].name
              /\ all_subreddits'[k].subscribers = result'.items[j].subscribers
              /\ all_subreddits'[k].description =
                    Take(result'.items[j].public_description, DescriptionLimit)

C6_FirstOccurrenceWins ==
  /\ [](\A k \in 1..Len(subreddits) : subreddits[k] \in Range(all_subreddits))
  /\ [][C6_MergeStep]_vars

\* a reply names a community that is in the map with other data
C6_Witness ==
  /\ pc = "Discovering"
  /\ ~result.error
  /\ \E k \in 1..Len(all_subreddits), j \in 1..Len(result.items) :
        /\ all_subreddits[k].name = result.items[j].name
        /\ all_subreddits[k].subscribers # result.items[j].subscribers
        /\ all_subreddits[k].description # result.items[j].public_description

\* C7: discover_subreddits returns candidates in non-increasing subscriber
\* order, min(max_subreddits, number of named communities found) of them, and
\* no community it leaves out has more subscribers than one it returns.
C7_SortedTruncated ==
  pc # "Discovering" =>
     /\ \A a, b \in 1..Len(subreddits) :
           a < b => subreddits[a].subscribers >= subreddits[b].subscribers
     /\ Len(subreddits) = Min(max_subreddits, Cardinality(Names(all_subreddits)))
     /\ \A k \in 1..Len(subreddits) : subreddits[k] \in Range(all_subreddits)
     /\ \A k \in 1..Len(all_subreddits) :
           all_subreddits[k] \notin Range(subreddits) =>
              \A r \in 1..Len(subreddits) :
                 all_subreddits[k].subscribers <= subreddits[r].subscribers

\* two communities were found, the second with more subscribers, and one is
\* returned
C7_Witness ==
  /\ pc # "Discovering"
  /\ max_subreddits = 1
  /\ Len(all_subreddits) = 2
  /\ all_subreddits[1].subscribers < all_subreddits[2].subscribers
  /\ Len(subreddits) = 1

\* C8: a run makes at most 5 community-search calls.
C8_AtMostFiveSearches == Len(searched) <= 5 /\ vi <= 6

\* the set has more than 5 variations, discovery is over and every search
\* came back without a candidate
C8_Witness ==
  /\ pc # "Discovering"
  /\ Len(variations) > 5
  /\ Len(searched) = 5
  /\ all_subreddits = <<>>

\* C9: no call is repeated: no variation is searched twice, and once the
\* loop over the communities is over each discovered community was fetched
\* exactly once, in order, failed fetches included.
C9_NoRetry ==
  /\ NoDuplicates(searched)
  /\ Len(fetched) <= Len(subreddits)
  /\ \A k \in 1..Len(fetched) : fetched[k].subreddit = subreddits[k].name
  /\ pc \in {"Aggregating", "Done"} => Len(fetched) = Len(subreddits)

\* a run that is over, in which a fetch failed
C9_Witness ==
  /\ pc = "Done"
  /\ Len(fetched) = 2
  /\ fetched[2].error
  /\ Len(searched) = 5

\* the posts get_top_posts handed to the analysis in the k-th fetch
AnalysedPosts(k) ==
  [j \in 1..Len(fetched[k].items) |-> ProcessedPost(fetched[k].items[j], fetched[k].subreddit)]

\* C11: report.top_posts has at most 20 posts, in non-increasing score
\* order, and no post analysed in the run that is missing from it has a
\* higher score than one of its posts.
C11_TopPostsOfCorpus ==
  pc = "Done" =>
     /\ Len(report.top_posts) <= 20
     /\ \A a, b \in 1..Len(report.top_posts) :
           a < b => report.top_posts[a].score >= report.top_posts[b].score
     /\ \A k \in 1..Len(fetched) : \A j \in 1..Len(fetched[k].items) :
           AnalysedPosts(k)[j] \notin Range(report.top_posts) =>
              \A t \in 1..Len(report.top_posts) :
                 AnalysedPosts(k)[j].score <= report.top_posts[t].score

\* C10: the number of posts analysed for a community is at most
\* posts_per_subreddit.
C10_PostsWithinLimit ==
  /\ analysis.posts_analyzed <= posts_per_subreddit
  /\ total_posts <= Len(fetched) * posts_per_subreddit

\* C12: categorize_post_by_intent returns exactly one of the five labels,
\* the first that applies in the order question ('?' in the title or a
\* question pattern), complaint (a pain pattern), request (a request
\* pattern), showcase (one of the showcase phrases as a substring),
\* discussion.
C12_IsQuestion(title) == "?" \in Range(title) \/ MatchesPatterns(title, "question")

C12_IsShowcase(title) ==
  \E ws \in ShowcasePhrases : IsSubstring(Ph(ws), SpellText(LowerText(title)))

C12_IntentPriority ==
  (call.op = "categorize_post_by_intent" /\ "title" \in DOMAIN call.args
      /\ call.args.title # None) =>
     LET title == call.args.title
         q == C12_IsQuestion(title)
         p == MatchesPatterns(title, "pain")
         r == MatchesPatterns(title, "request")
         w == C12_IsShowcase(title)
     IN /\ call.raised = ""
        /\ call.ret \in Intents
        /\ (call.ret = "question") <=> q
        /\ (call.ret = "complaint") <=> (~q /\ p)
        /\ (call.ret = "request") <=> (~q /\ ~p /\ r)
        /\ (call.ret = "showcase") <=> (~q /\ ~p /\ ~r /\ w)
        /\ (call.ret = "discussion") <=> (~q /\ ~p /\ ~r /\ ~w)

\* a title with a question pattern, a pain pattern and a request pattern
C12_Witness ==
  /\ call.op = "categorize_post_by_intent"
  /\ "title" \in DOMAIN call.args
  /\ call.args.title # None
  /\ MatchesPatterns(call.args.title, "question")
  /\ MatchesPatterns(call.args.title, "pain")
  /\ MatchesPatterns(call.args.title, "request")
  /\ call.ret = "question"

\* the text of a record is absent or empty: neither a title nor a body
C13_NoText(post) ==
  /\ DictGet(post, "title", <<>>) = <<>>
  /\ DictGet(post, "selftext", <<>>) = <<>>
  /\ DictGet(post, "body", <<>>) = <<>>

C13_AllEmpty(buckets) == \A key \in DOMAIN buckets : buckets[key] = <<>>

\* C13: analyze_post, analyze_comments and categorize_post_by_intent return
\* a value for every record whose title and body are absent, empty, null or
\* a string, and for a record without text the five buckets are empty and
\* the intent is discussion.
C13_ClassifierNeverRaises ==
  /\ call.op \in {"analyze_post", "analyze_comments", "categorize_post_by_intent"} =>
        call.raised = ""
  /\ (call.op = "analyze_post" /\ C13_NoText(call.args)) => C13_AllEmpty(call.ret)
  /\ (call.op = "analyze_comments" /\ \A k \in 1..Len(call.args) :
         DictGet(call.args[k], "body", <<>>) = <<>> /\ DictGet(call.args[k], "text", <<>>) = <<>>) =>
        C13_AllEmpty(call.ret)
  /\ (call.op = "categorize_post_by_intent" /\ C13_NoText(call.args)) =>
        call.ret = "discussion"

\* the pattern family of each bucket
C14_Family ==
  [ pain_points |-> "pain", questions |-> "question", requests |-> "request",
    solutions_mentioned |-> "solution", beliefs |-> "belief" ]

\* the segments of the pools' posts: the contiguous parts of a title or body
C14_Segments ==
  UNION { {SubSeq(t, a, b) : a \in 1..Len(t), b \in 1..Len(t)} :
            t \in UNION {{DictGet(PostData(p), "title", <<>>), DictGet(PostData(p), "selftext", <<>>)} :
                           p \in PostPool \cup MalformedPostPool} }

\* the segments that match a pattern of each family
C14_Matching == [f \in {"pain", "question", "request", "solution", "belief"} |->
                   {g \in C14_Segments : MatchesPatterns(g, f)}]

\* g is a segment of a post analysed in the run
C14_FromAnalysedPost(g) ==
  \E k \in 1..Len(fetched) : \E j \in 1..Len(fetched[k].items) :
     \/ IsSubstring(g, AnalysedPosts(k)[j].title)
     \/ IsSubstring(g, AnalysedPosts(k)[j].selftext)

C14_BucketsOf(buckets) ==
  \A b \in DOMAIN C14_Family : \A k \in 1..Len(buckets[b]) :
     /\ buckets[b][k] \in C14_Matching[C14_Family[b]]
     /\ C14_FromAnalysedPost(buckets[b][k])

\* C14: while accumulating, after finalization and in the report, every
\* fragment of pain_points, questions, requests, solutions_mentioned and
\* beliefs is a segment of an analysed post that matches a pattern of the
\* bucket's own family.
C14_BucketMembership ==
  /\ C14_BucketsOf(all_insights)
  /\ C14_BucketsOf(report)
  /\ all_insights.frustrations = <<>> /\ all_insights.perspectives = <<>>

\* the run is over, every bucket of the report holds a fragment, and one
\* fragment is in two buckets
C14_Witness ==
  /\ pc = "Done"
  /\ \A b \in DOMAIN C14_Family : report[b] # <<>>
  /\ \E g \in Range(report.questions) : g \in Range(report.solutions_mentioned)
  /\ \E g \in Range(report.pain_points) : g \notin Range(report.questions)

\* the cap of each bucket in research_niche
C15_Cap ==
  [ pain_points |-> 50, questions |-> 50, requests |-> 50,
    solutions_mentioned |-> 30, beliefs |-> 30 ]

\* C15: after finalization every bucket holds distinct values, at most 50
\* (pain_points, questions, requests) or 30 (solutions_mentioned, beliefs) of
\* them, all taken from the accumulated values, and all the accumulated
\* values when their number is within the cap.
C15_FinalizedBuckets ==
  call.op = "finalize" =>
     \A b \in DOMAIN C15_Cap :
        /\ NoDuplicates(call.ret[b])
        /\ Len(call.ret[b]) <= C15_Cap[b]
        /\ Range(call.ret[b]) \subseteq Range(call.args[b])
        /\ Cardinality(Range(call.args[b])) <= C15_Cap[b] =>
              Range(call.ret[b]) = Range(call.args[b])

\* buckets with duplicates were finalized: one above its cap, one within
C15_Witness ==
  /\ call.op = "finalize"
  /\ ~NoDuplicates(call.args.pain_points)
  /\ Cardinality(Range(call.args.pain_points)) > 50
  /\ Len(call.ret.pain_points) = 50
  /\ ~NoDuplicates(call.args.beliefs)
  /\ Cardinality(Range(call.args.beliefs)) = 30
  /\ Len(call.ret.beliefs) = 30

\* C16: finalizing finalized buckets again yields, bucket by bucket, the same
\* set of fragments, without duplicates and within the cap.
C16_FinalizeIdempotent ==
  call.op = "finalize_again" =>
     \A b \in DOMAIN C15_Cap :
        /\ Range(call.ret[b]) = Range(call.args[b])
        /\ Len(call.ret[b]) = Len(call.args[b])
        /\ NoDuplicates(call.ret[b])
        /\ Len(call.ret[b]) <= C15_Cap[b]

\* the accumulated content was larger than the caps and held duplicates
C16_Witness ==
  /\ call.op = "finalize_again"
  /\ Cardinality(Range(call.accumulated.pain_points)) > 50
  /\ Cardinality(Range(call.accumulated.beliefs)) > 30
  /\ ~NoDuplicates(call.accumulated.pain_points)
  /\ Len(call.ret.pain_points) = 50
  /\ Len(call.ret.beliefs) = 30

\* C17: generate_saas_opportunities emits min(10, |pain_points|) +
\* min(10, |questions|) + min(10, |requests|) records, at most 30: the
\* pain_point records, then the question records, then the feature_request
\* records, the k-th of a type with the k-th fragment of its bucket as
\* signal; solutions_mentioned and beliefs give no record and the buckets
\* are as they were.
C17_Opportunities ==
  call.op = "generate_saas_opportunities" =>
     LET insights == call.args
         out == call.ret
         np == Min(10, Len(insights.pain_points))
         nq == Min(10, Len(insights.questions))
         nr == Min(10, Len(insights.requests))
     IN /\ Len(out) = np + nq + nr
        /\ Len(out) <= 30
        /\ \A k \in 1..np :
              out[k].type = "pain_point" /\ out[k].signal = insights.pain_points[k]
        /\ \A k \in 1..nq :
              out[np + k].type = "question" /\ out[np + k].signal = insights.questions[k]
        /\ \A k \in 1..nr :
              /\ out[np + nq + k].type = "feature_request"
              /\ out[np + nq + k].signal = insights.requests[k]
        /\ call.insights_after = insights

\* every bucket holds more than 10 fragments, solutions and beliefs included
\* one each, and 30 records came out
C17_Witness ==
  /\ call.op = "generate_saas_opportunities"
  /\ Len(call.args.pain_points) > 10
  /\ Len(call.args.questions) > 10
  /\ Len(call.args.requests) > 10
  /\ call.args.solutions_mentioned # <<>>
  /\ call.args.beliefs # <<>>
  /\ Len(call.ret) = 30

\* the terms the variation set has to hold for a base
C18_Expected(base) ==
  LET words == Split(base)
  IN { base,
       base \o <<" ","s","o","f","t","w","a","r","e">>,
       base \o <<" ","t","o","o","l">>,
       base \o <<" ","a","p","p">>,
       base \o <<" ","a","u","t","o","m","a","t","i","o","n">>,
       base \o <<" ","h","e","l","p">>,
       base \o <<" ","t","i","p","s">>,
       <<"b","e","s","t"," ">> \o base,
       base \o <<" ","f","o","r"," ","b","e","g","i","n","n","e","r","s">>,
       base \o <<" ","p","r","o","b","l","e","m","s">>,
       IF base # <<>> /\ base[Len(base)] = "s"
       THEN SubSeq(base, 1, Len(base) - 1) ELSE base \o <<"s">> }
     \cup IF Len(words) > 1
          THEN {words[1], words[Len(words)], JoinSpace(Reverse(words))}
          ELSE {}

\* C18: generate_niche_variations returns, without duplicates, exactly: the
\* lowercased and trimmed niche; it followed by ' software', ' tool', ' app',
\* ' automation', ' help', ' tips', ' for beginners', ' problems'; it after
\* 'best '; it without its final 's', or with an 's' added when it has none;
\* and for a niche of several words its first word, its last word and its
\* words in reverse order.
C18_Variations ==
  call.op = "generate_niche_variations" =>
     /\ NoDuplicates(call.ret)
     /\ Range(call.ret) = C18_Expected(Strip(Lower(call.args)))
     /\ call.args = EmailMarketing =>
           { EmailMarketing,
             EmailMarketing \o <<" ","s","o","f","t","w","a","r","e">>,
             <<"b","e","s","t"," ">> \o EmailMarketing,
             <<"e","m","a","i","l">>,
             <<"m","a","r","k","e","t","i","n","g">>,
             <<"m","a","r","k","e","t","i","n","g"," ","e","m","a","i","l">> }
             \subseteq Range(call.ret)

\* a niche in upper case after a blank, of two words, ending in s
C18_Witness ==
  /\ call.op = "generate_niche_variations"
  /\ call.args = <<" ", "A", " ", "s">>
  /\ {<<"a", " ", "s">>, <<"a", " ">>, <<"a">>, <<"s">>, <<"s", " ", "a">>} \subseteq Range(call.ret)
  /\ Len(call.ret) = 14

\* the lowercased tokens of the titles of a call, one title after the other
C19_Stream(posts) ==
  Flatten([k \in 1..Len(posts) |-> LowerText(DictGet(posts[k], "title", <<>>))])

\* how often w occurs in the stream of title words
C19_Count(stream, w) == Cardinality({i \in 1..Len(stream) : stream[i] = w})

\* where w is met first in the stream of title words
C19_First(stream, w) ==
  CHOOSE i \in 1..Len(stream) : stream[i] = w /\ \A j \in 1..(i - 1) : stream[j] # w

\* the lowercase alphabetic tokens of three letters or more of the titles
C19_Alphabetic == {"crm", "export", "tools", "best", "how", "hate", "made"}

\* w is ranked before v: a higher count, or the same and met first
C19_Before(count, first, w, v) ==
  \/ count[w] > count[v]
  \/ count[w] = count[v] /\ first[w] < first[v]

C19_InAllTitles(posts, w) ==
  \A k \in 1..Len(posts) : w \in Range(LowerText(DictGet(posts[k], "title", <<>>)))

\* C19: extract_common_themes returns at most top_n distinct words, each a
\* lowercase alphabetic token of three letters or more of a title that is
\* not a stopword, by non-increasing count over all titles, equal counts in
\* the order met; no word left out ranks before a returned one; a word that
\* is in all of three titles is ahead of every word occurring once; and a
\* second call on the same titles returns the same list.
C19_Themes ==
  call.op \in {"extract_common_themes", "extract_common_themes_again"} =>
     LET posts == call.args.posts
         out == call.ret
         stream == C19_Stream(posts)
         eligible == (C19_Alphabetic \ stopwords) \cap Range(stream)
         count == [w \in eligible |-> C19_Count(stream, w)]
         first == [w \in eligible |-> C19_First(stream, w)]
     IN /\ Len(out) = Min(call.args.top_n, Cardinality(eligible))
        /\ NoDuplicates(out)
        /\ Range(out) \subseteq eligible
        /\ \A a, b \in 1..Len(out) : a < b => C19_Before(count, first, out[a], out[b])
        /\ \A w \in eligible \ Range(out) :
              \A a \in 1..Len(out) : C19_Before(count, first, out[a], w)
        /\ Len(posts) = 3 =>
              \A w, v \in eligible :
                 (C19_InAllTitles(posts, w) /\ count[v] = 1 /\ v \in Range(out)) =>
                    \E a, b \in 1..Len(out) : a < b /\ out[a] = w /\ out[b] = v
        /\ call.op = "extract_common_themes_again" => out = call.first_ret

\* a second call on three titles that all hold crm, with words occurring
\* once met before it: crm is first
C19_Witness ==
  /\ call.op = "extract_common_themes_again"
  /\ Len(call.args.posts) = 3
  /\ C19_InAllTitles(call.args.posts, "crm")
  /\ C19_Count(C19_Stream(call.args.posts), "best") = 1
  /\ C19_First(C19_Stream(call.args.posts), "best")
        < C19_First(C19_Stream(call.args.posts), "crm")
  /\ call.args.top_n = 20
  /\ call.ret[1] = "crm"
  /\ "best" \in Range(call.ret)

\* the record under 'data', or the record itself
C20_Raw(item) == IF "data" \in DOMAIN item THEN item.data ELSE item

\* the value of a field, or the default when the field is absent
C20_Field(raw, key, default) == IF key \in DOMAIN raw THEN raw[key] ELSE default

C20_NameOfRaw(raw) ==
  IF C20_Field(raw, "display_name", "") # "" THEN raw.display_name
  ELSE C20_Field(raw, "name", "")

\* a search step stores, for every named record of the reply, an entry with
\* all four fields, absent ones at their defaults
C20_SearchStep ==
  (SearchStep /\ ~result'.error) =>
     /\ \A j \in 1..Len(result'.items) :
           C20_NameOfRaw(C20_Raw(result'.items[j])) # "" =>
              C20_NameOfRaw(C20_Raw(result'.items[j])) \in Names(all_subreddits')
     /\ \A k \in (Len(all_subreddits) + 1)..Len(all_subreddits') :
           /\ DOMAIN all_subreddits'[k] = {"name", "subscribers", "description", "url"}
           /\ all_subreddits'[k].name # ""
           /\ \E j \in 1..Len(result'.items) :
                 LET raw == C20_Raw(result'.items[j])
                 IN /\ all_subreddits'[k].name = C20_NameOfRaw(raw)
                    /\ all_subreddits'[k].subscribers = C20_Field(raw, "subscribers", 0)
                    /\ all_subreddits'[k].description = C20_Field(raw, "public_description", <<>>)

\* a fetch step hands on one post per record of the reply, with all eight
\* fields, absent ones at their defaults
C20_FetchStep ==
  (FetchStep /\ ~fetched'[Len(fetched')].error) =>
     LET items == fetched'[Len(fetched')].items
         posts == analysis'.top_posts
     IN /\ Len(posts) = Len(items)
        /\ analysis'.posts_analyzed = Len(items)
        /\ \A j \in 1..Len(items) :
              LET raw == C20_Raw(items[j])
              IN /\ DOMAIN posts[j] = { "id", "title", "selftext", "score", "num_comments",
                                        "url", "created_utc", "subreddit" }
                 /\ posts[j].id = C20_Field(raw, "id", "")
                 /\ posts[j].title = C20_Field(raw, "title", <<>>)
                 /\ posts[j].selftext = C20_Field(raw, "selftext", <<>>)
                 /\ posts[j].score = C20_Field(raw, "score", 0)
                 /\ posts[j].num_comments = C20_Field(raw, "num_comments", 0)
                 /\ posts[j].url = C20_Field(raw, "url", "")
                 /\ posts[j].created_utc = C20_Field(raw, "created_utc", 0)
                 /\ posts[j].subreddit = subreddits[si].name

\* the report is returned with every post handed on, sorted by score
C20_Returned ==
  /\ pc = "Aborted" => subreddits = <<>>
  /\ pc = "Done" =>
        /\ returned = "report"
        /\ Len(report.top_posts) = total_posts
        /\ \A a, b \in 1..Len(report.top_posts) :
              a < b => report.top_posts[a].score >= report.top_posts[b].score

\* C20: with community and post records that lack any of their fields,
\* discover_subreddits, get_top_posts and research_niche go on to their
\* return (the run ends in Done or Aborted), and every record they build has
\* each field, an absent one at its default: empty string, zero or empty
\* sequence.
C20_MalformedDataAbsorbed ==
  /\ <>Terminal
  /\ []C20_Returned
  /\ [][C20_SearchStep /\ C20_FetchStep]_vars

\* the run returned a report with a community that came without subscriber
\* count and description, a post that came without id, score and body, and
\* a post that came without title
C20_Witness ==
  /\ pc = "Done"
  /\ \E k \in 1..Len(subreddits) :
        subreddits[k].subscribers = 0 /\ subreddits[k].description = <<>>
  /\ \E k \in 1..Len(report.top_posts) :
        /\ report.top_posts[k].id = ""
        /\ report.top_posts[k].score = 0
        /\ report.top_posts[k].selftext = <<>>
  /\ \E k \in 1..Len(report.top_posts) :
        report.top_posts[k].title = <<>> /\ report.top_posts[k].id = "p3"

\* the fragments occur in the text one after the other, from offset `from` on
RECURSIVE C21_InOrder(_, _, _)
C21_InOrder(frags, text, from) ==
  IF frags = <<>> THEN TRUE
  ELSE LET f == Head(frags)
       IN \E o \in from..(Len(text) - Len(f)) :
             /\ \A k \in 1..Len(f) : text[o + k] = f[k]
             /\ C21_InOrder(Tail(frags), text, o + Len(f))

\* C21: every fragment analyze_post puts in a bucket is non-empty, trimmed
\* and holds none of the delimiters '.', '!', '?' and newline; the fragments
\* of a bucket occur in the text in their order, those of the title before
\* those of the body.
C21_Segmentation ==
  call.op = "analyze_post" =>
     LET title == Format(DictGet(call.args, "title", <<>>))
         body  == Format(PyOr(DictGet(call.args, "selftext", <<>>),
                              DictGet(call.args, "body", <<>>)))
     IN \A key \in DOMAIN call.ret :
           LET frags == call.ret[key]
           IN /\ \A k \in 1..Len(frags) :
                    /\ frags[k] # <<>>
                    /\ ~IsSpace(frags[k][1]) /\ ~IsSpace(frags[k][Len(frags[k])])
                    /\ Range(frags[k]) \cap Delimiters = {}
              /\ C21_InOrder(frags, title \o <<".", " ">> \o body, 0)
              /\ \E n \in 0..Len(frags) :
                    /\ C21_InOrder(SubSeq(frags, 1, n), title, 0)
                    /\ C21_InOrder(SubSeq(frags, n + 1, Len(frags)), body, 0)

\* a post whose title holds '?', newline, '!' and a segment of blanks, and
\* whose body holds two sentences: the question of the title without its
\* question mark, and the pain of the title before the pain of the body
C21_Witness ==
  /\ call.op = "analyze_post"
  /\ "title" \in DOMAIN call.args /\ "selftext" \in DOMAIN call.args
  /\ call.args.title \in DelimitedTexts
  /\ call.args.selftext = <<"I", " ", "Hate", " ", "this", ".", " ", "recommend", " ", "tools">>
  /\ call.ret.questions = << <<"how", " ", "to", " ", "export">>, <<"recommend", " ", "tools">> >>
  /\ call.ret.pain_points = << <<"Hate", " ", "this">>, <<"I", " ", "Hate", " ", "this">> >>
  /\ call.ret.requests = << <<"wish">> >>

\* the posts the run handed on, community by community in the order of the
\* fetches, each community's posts in the order of its reply
C22_Corpus ==
  Flatten([k \in 1..Len(fetched) |->
             Take(ProcessedPosts(fetched[k].items, fetched[k].subreddit), TopPostsPerSubreddit)])

C22_IsPrefix(a, b) == Len(a) <= Len(b) /\ SubSeq(b, 1, Len(a)) = a

C22_OfScore(posts, s) == SelectSeq(posts, LAMBDA p : p.score = s)

\* C22: the k-th content fetch is for the k-th community of the ranking,
\* and the ranking is by non-increasing subscriber count; until the final
\* sort all_posts holds the posts community by community, each in the order
\* of the reply; in report.top_posts the posts of one score are in that
\* same order: earlier-ranked community first, reply order within one.
C22_RankOrderKept ==
  /\ Len(fetched) <= Len(subreddits)
  /\ \A k \in 1..Len(fetched) : fetched[k].subreddit = subreddits[k].name
  /\ \A a, b \in 1..Len(subreddits) :
        a < b => subreddits[a].subscribers >= subreddits[b].subscribers
  /\ pc \in {"AnalyzingCommunity", "Aggregating"} => all_posts = C22_Corpus
  /\ pc = "Done" =>
        \A s \in {C22_Corpus[k].score : k \in 1..Len(C22_Corpus)} :
           C22_IsPrefix(C22_OfScore(report.top_posts, s), C22_OfScore(C22_Corpus, s))

\* x was discovered before y and y is ranked first; y's reply had p6 before
\* p5 and x's reply p5 before p6, all of score 6: the report holds them as
\* y's p6, y's p5, x's p5, x's p6
C22_Witness ==
  /\ pc = "Done"
  /\ all_subreddits[1].name = "x"
  /\ Len(subreddits) = 2 /\ subreddits[1].name = "y"
  /\ LET six == C22_OfScore(report.top_posts, 6)
     IN /\ Len(six) = 4
        /\ six[1].id = "p6" /\ six[1].subreddit = "y"
        /\ six[2].id = "p5" /\ six[2].subreddit = "y"
        /\ six[3].id = "p5" /\ six[3].subreddit = "x"
        /\ six[4].id = "p6" /\ six[4].subreddit = "x"

\* C23: a community-search call that is not the first one is made only
\* after the pause that follows the call before it, whatever that call
\* returned.
C23_PauseBetweenSearches ==
  [][(SearchStep /\ searched # <<>>) => paused]_vars

\* C24: a content fetch whose posts make the classification raise does not
\* end research_niche: after every fetch the run goes on with the next
\* community or with the aggregation, and nothing but the report or None is
\* ever returned.
C24_ClassificationErrorCaught ==
  /\ [](returned \in {"pending", "None", "report"})
  /\ [][FetchStep => pc' \in {"AnalyzingCommunity", "Aggregating"}]_vars

\* the lowercased tokens of the titles of all posts fetched in the run
C25_Stream ==
  Flatten([k \in 1..Len(fetched) |->
             Flatten([j \in 1..Len(fetched[k].items) |->
                        LowerText(DictGet(PostData(fetched[k].items[j]), "title", <<>>))])])

\* C25: report.common_themes holds at most 20 distinct words, and of two
\* words in it the one that occurs more often in the titles of all posts
\* of the run is not ranked below the other.
C25_GlobalRanking ==
  pc = "Done" =>
     LET themes == report.common_themes
         count == [w \in Range(themes) |-> C19_Count(C25_Stream, w)]
     IN /\ Len(themes) <= TopThemes
        /\ NoDuplicates(themes)
        /\ \A a, b \in 1..Len(themes) : a < b => count[themes[a]] >= count[themes[b]]

\* the number of characters of a string given as a sequence of pieces
RECURSIVE C26_CharLen(_)
C26_CharLen(pieces) ==
  IF pieces = <<>> THEN 0 ELSE Len(Head(pieces)) + C26_CharLen(Tail(pieces))

\* C26: no opportunity text generate_saas_opportunities emits is longer than
\* 100 characters.
C26_TextWithinLimit ==
  call.op = "generate_saas_opportunities" =>
     \A k \in 1..Len(call.ret) : C26_CharLen(call.ret[k].opportunity) <= OpportunityTextLimit

\* C27: in both targeted scripts the deduplication leaves in each of the
\* five buckets the distinct fragments that were accumulated, at most 30 of
\* them.
C27_TargetedCaps ==
  call.op = "run_research_finalize" =>
     /\ DOMAIN call.ret = {"pain_points", "questions", "requests", "solutions", "beliefs"}
     /\ \A key \in DOMAIN call.ret :
           /\ NoDuplicates(call.ret[key])
           /\ Range(call.ret[key]) \subseteq Range(call.args.insights[key])
           /\ Len(call.ret[key]) = Min(WatermarkCap, Cardinality(Range(call.args.insights[key])))

\* C28: analyze_subreddit makes one request, a content fetch for its
\* community, and no community search; the five intent counts of its result
\* are the numbers of fetched posts with each label and sum to
\* posts_analyzed; when the fetch failed, posts_analyzed and all counts are 0
\* and every bucket is empty.
C28_SingleCommunity ==
  (call.op = "analyze_subreddit" /\ call.raised = "") =>
     LET ret == call.ret
         items == IF call.reply.error THEN <<>> ELSE call.reply.items
         label(k) == CategorizePostByIntent(PostData(items[k]))
     IN /\ Len(call.requests) = 1
        /\ call.requests[1].endpoint = "/v1/reddit/posts"
        /\ call.requests[1].url = <<"https://www.reddit.com/r/", call.args.subreddit>>
        /\ ret.posts_analyzed = Len(items)
        /\ DOMAIN ret.post_categories = Intents
        /\ \A c \in Intents :
              ret.post_categories[c] = Cardinality({k \in 1..Len(items) : label(k) = c})
        /\ ret.post_categories["question"] + ret.post_categories["complaint"]
             + ret.post_categories["request"] + ret.post_categories["showcase"]
             + ret.post_categories["discussion"] = ret.posts_analyzed
        /\ call.reply.error =>
              /\ ret.posts_analyzed = 0
              /\ \A c \in Intents : ret.post_categories[c] = 0
              /\ C13_AllEmpty(ret.insights)

\* a fetch that returned a showcase post and a discussion post
C28_Witness ==
  /\ call.op = "analyze_subreddit" /\ call.raised = ""
  /\ ~call.reply.error
  /\ call.ret.posts_analyzed = 2
  /\ call.ret.post_categories["showcase"] = 1
  /\ call.ret.post_categories["discussion"] = 1

\* C29: the variations discover_subreddits searched are the same under
\* every hash seed of the interpreter: they are a function of the niche.
C29_DiscoveryDeterministic ==
  pc \in {"AnalyzingCommunity", "Aggregating", "Done", "Aborted"} =>
     \A s \in 0..MaxSeed : searched = QueriedVariations(GenerateNicheVariations(niche, s))

(***************************************************************************)
(* research_crm_network.run_research and research_watermark.run_research:  *)
(* the loop over TARGET_SUBREDDITS and the report.                         *)
(***************************************************************************)
CrmNetworkTargets ==
  << "sales", "Entrepreneur", "smallbusiness", "startups", "networking", "careerguidance",
     "jobs", "freelance", "consulting", "realestate", "recruiting", "LinkedInLunatics",
     "productivity", "GetMotivated", "socialskills", "introverts", "businessanalysis",
     "SideProject" >>

WatermarkTargets ==
  << "PhotoshopRequest", "graphic_design", "VideoEditing", "Piracy", "photoshop",
     "AfterEffects", "Filmmakers", "editors", "shutterstock", "ContentCreators", "NewTubers",
     "socialmedia", "DigitalArt", "freelance" >>

TARGET_SUBREDDITS(script) ==
  IF script = "crm_network" THEN CrmNetworkTargets ELSE WatermarkTargets

\* the names a run is followed over
Targets(script) == Take(TARGET_SUBREDDITS(script), MaxTargets)

\* RELEVANT_KEYWORDS of research_crm_network.py, as phrases
RELEVANT_KEYWORDS ==
  << Ph(<<"follow", "up">>), <<"followup">>, <<"follow-up">>,
     Ph(<<"keep", "in", "touch">>), Ph(<<"staying", "in", "touch">>), Ph(<<"reach", "out">>),
     <<"networking">>, <<"network">>,
     <<"crm">>, <<"contacts">>, <<"relationships">>,
     Ph(<<"cold", "outreach">>), <<"warm">>, <<"reconnect">>,
     <<"linkedin">>, <<"connections">>,
     <<"remember">>, <<"forget">>, Ph(<<"forgot", "to">>),
     <<"busy">>, Ph(<<"too", "many", "contacts">>),
     Ph(<<"professional", "relationship">>),
     <<"nurture">>, Ph(<<"maintain", "relationship">>),
     <<"outreach">>, Ph(<<"touch", "base">>) >>

\* watermark_keywords of research_watermark.py, as phrases
watermark_keywords ==
  << <<"watermark">>, <<"remove">>, <<"stock">>, <<"shutterstock">>, <<"getty">>,
     Ph(<<"adobe", "stock">>), <<"logo">>, <<"overlay">>, <<"copyright">>, <<"istock">>,
     Ph(<<"stock", "photo">>), Ph(<<"stock", "image">>), Ph(<<"stock", "footage">>) >>

\* str(post_data.get(key, '')).lower()
LowerStr(post_data, key) == SpellText(LowerText(Format(DictGet(post_data, key, <<>>))))

\* is_relevant: research_crm_network looks for a keyword in title + ' ' + body,
\* research_watermark in the title or in the body
IsRelevant(script, post_data) ==
  LET title == LowerStr(post_data, "title")
      body  == LowerStr(post_data, "selftext")
  IN IF script = "crm_network"
     THEN \E k \in 1..Len(RELEVANT_KEYWORDS) :
             IsSubstring(RELEVANT_KEYWORDS[k], title \o <<" ">> \o body)
     ELSE \E k \in 1..Len(watermark_keywords) :
             IsSubstring(watermark_keywords[k], title) \/ IsSubstring(watermark_keywords[k], body)

\* post_data.get('selftext', '')[:limit] raises TypeError when the selftext is None
PostInfoRaises(post_data) ==
  IF DictGet(post_data, "selftext", <<>>) = None THEN "TypeError" ELSE ""

\* the post_info dict of one post
PostInfo(script, sub, post_data) ==
  [ subreddit |-> sub,
    title     |-> DictGet(post_data, "title", <<>>),
    body      |-> Take(DictGet(post_data, "selftext", <<>>),
                       IF script = "crm_network" THEN CrmNetworkBodyLimit
                       ELSE WatermarkBodyLimit),
    score     |-> DictGet(post_data, "score", 0),
    comments  |-> DictGet(post_data, "num_comments", 0),
    url       |-> DictGet(post_data, "url", ""),
    relevant  |-> IsRelevant(script, post_data) ]

\* Posts the collaborator serves to a targeted script: one relevant to both
\* scripts, one relevant to neither and nested under 'data', one relevant to
\* research_watermark alone, and one whose selftext is null.
RelevantPost ==
  [ title |-> <<"Hate", " ", "crm">>,
    selftext |-> <<"how", " ", "to", " ", "remove", " ", "watermark", "?">>,
    score |-> 5, num_comments |-> 1, url |-> "u1" ]

OffTopicPost ==
  [ data |-> [ title |-> <<"export", " ", "wish", " ", "list">>, score |-> 7 ] ]

LogoPost ==
  [ title |-> <<"I", " ", "need", " ", "logo">>, selftext |-> <<>>, score |-> 9,
    num_comments |-> 0, url |-> "u3" ]

NullBodyPost ==
  [ title |-> <<"crm", " ", "watermark">>, selftext |-> None, score |-> 3,
    num_comments |-> 0, url |-> "u4" ]

ScriptPostPool == {RelevantPost, OffTopicPost, LogoPost, NullBodyPost}

\* analyze_post of the pool's posts, tabulated once
ScriptAnalyzeTable == [p \in {PostData(q) : q \in ScriptPostPool} |-> AnalyzePost(p)]

\* post_info of the pool's posts, tabulated once
ScriptInfoTable ==
  [script \in Scripts |-> [p \in {PostData(q) : q \in ScriptPostPool} |->
      [sub \in Range(Targets(script)) |-> PostInfo(script, sub, p)]]]

\* The loop `for post in posts` of run_research, from the lists acc: every
\* post is appended to all_posts, a relevant one is analysed into the
\* buckets; an exception ends the loop and keeps what was appended before.
RECURSIVE ScriptProcessPosts(_, _, _, _)
ScriptProcessPosts(script, sub, posts, acc) ==
  IF posts = <<>> THEN acc
  ELSE LET post_data == PostData(Head(posts))
           post_info == ScriptInfoTable[script][post_data][sub]
           insights  == ScriptAnalyzeTable[post_data]
       IN IF PostInfoRaises(post_data) # ""
          THEN [acc EXCEPT !.raised = PostInfoRaises(post_data)]
          ELSE ScriptProcessPosts(script, sub, Tail(posts),
                 [ all_posts    |-> Append(acc.all_posts, post_info),
                   all_insights |-> IF post_info.relevant
                                    THEN [key \in DOMAIN acc.all_insights |->
                                            acc.all_insights[key] \o insights[key]]
                                    ELSE acc.all_insights,
                   raised       |-> "" ])

\* What api.get_posts returns to a targeted script: an error indicator, a
\* listing under 'body', under 'data' as a dict of children, or under
\* 'posts', a dict with none of them, or the JSON value null.
ScriptListings ==
  { <<>>, <<RelevantPost>>, <<OffTopicPost, LogoPost>>, <<NullBodyPost>>,
    <<RelevantPost, NullBodyPost, LogoPost>> }

ScriptReplies ==
  {[error |-> <<"e">>], [json |-> "null"], [meta |-> <<>>]}
  \cup {[meta |-> <<>>, body |-> l] : l \in ScriptListings}
  \cup {[data |-> [children |-> <<LogoPost, RelevantPost>>]], [data |-> [after |-> <<>>]],
        [posts |-> <<RelevantPost>>]}

\* `'error' in result` raises TypeError when the reply is null
ScriptResultRaises(reply) == IF "json" \in DOMAIN reply THEN "TypeError" ELSE ""

\* result.get('body', result.get('data', result.get('posts', []))), and the
\* children of a dict
ScriptPostsOf(reply) ==
  IF "body" \in DOMAIN reply THEN reply.body
  ELSE IF "data" \in DOMAIN reply THEN DictGet(reply.data, "children", <<>>)
  ELSE DictGet(reply, "posts", <<>>)

\* The body of `for sub in TARGET_SUBREDDITS` for one reply: the path taken
\* and the lists after it.
ScriptIteration(script, sub, reply, corpus, buckets) ==
  LET acc == [all_posts |-> corpus, all_insights |-> buckets, raised |-> ""]
  IN IF ScriptResultRaises(reply) # ""
     THEN [acc EXCEPT !.raised = ScriptResultRaises(reply)] @@ [path |-> "exception"]
     ELSE IF "error" \in DOMAIN reply THEN acc @@ [path |-> "error"]
     ELSE IF ScriptPostsOf(reply) = <<>> THEN acc @@ [path |-> "no_posts"]
     ELSE LET after == ScriptProcessPosts(script, sub, ScriptPostsOf(reply), acc)
          IN after @@ [path |-> IF after.raised # "" THEN "exception" ELSE "processed"]

\* A variant whose error path goes on to the next subreddit without a pause.
ScriptPausedNotOnError(path) == path \in {"no_posts", "processed", "exception"}

\* time.sleep(2) closes every path through the loop body: error indicator,
\* no posts, posts processed, and the except clause
ScriptPaused(path) == path \in {"error", "no_posts", "processed", "exception"}

\* the start of run_research of one of the scripts
InitTargeted ==
  /\ call = NoCall
  /\ pc = "Idle"
  /\ collaborator = "targeted"
  /\ niche = <<>> /\ max_subreddits = 0 /\ posts_per_subreddit = 0
  /\ seed \in SeedsOf("targeted")
  /\ variations = <<>> /\ vi = 1 /\ result = NoReply /\ paused = FALSE
  /\ all_subreddits = <<>> /\ searched = <<>> /\ subreddits = <<>>
  /\ si = 1 /\ fetched = <<>> /\ analysis = NoAnalysis
  /\ total_posts = 0 /\ all_posts = <<>> /\ all_themes = <<>>
  /\ all_insights = EmptyInsightCategory
  /\ report = EmptyReport /\ returned = "pending"
  /\ \E script \in Scripts :
        targeted = [ name |-> script, pc |-> "Fetching", ti |-> 1, fetches |-> <<>>,
                     paths |-> <<>>, paused |-> FALSE, all_posts |-> <<>>,
                     all_insights |-> EmptyInsights, report |-> <<>> ]

\* one iteration of `for sub in TARGET_SUBREDDITS`
TargetedFetch ==
  /\ targeted.name \in Scripts
  /\ targeted.pc = "Fetching"
  /\ targeted.ti <= Len(Targets(targeted.name))
  /\ \E reply \in ScriptReplies :
        LET sub   == Targets(targeted.name)[targeted.ti]
            after == CHOOSE r \in {ScriptIteration(targeted.name, sub, reply,
                                      targeted.all_posts, targeted.all_insights)} : TRUE
        IN targeted' = [targeted EXCEPT !.ti = @ + 1,
                                        !.fetches = Append(@, sub),
                                        !.paths = Append(@, after.path),
                                        !.paused = ScriptPaused(after.path),
                                        !.all_posts = after.all_posts,
                                        !.all_insights = after.all_insights]
  /\ UNCHANGED << pc, niche, max_subreddits, posts_per_subreddit, seed, variations, vi, result,
                  paused, all_subreddits, searched, subreddits, si, fetched, analysis,
                  total_posts, all_posts, all_themes, all_insights, report, returned,
                  collaborator, call >>

\* the loop is over: deduplication, the relevant posts by score, the report
TargetedReport ==
  /\ targeted.name \in Scripts
  /\ targeted.pc = "Fetching"
  /\ targeted.ti > Len(Targets(targeted.name))
  /\ LET insights       == ScriptFinalize(targeted.name, targeted.all_insights, seed)
         relevant_posts == SortPosts(SelectSeq(targeted.all_posts, LAMBDA p : p.relevant))
     IN targeted' = [targeted EXCEPT
                       !.pc = "Done",
                       !.all_insights = insights,
                       !.report = [ subreddits_checked |-> TARGET_SUBREDDITS(targeted.name),
                                    total_posts        |-> Len(targeted.all_posts),
                                    relevant_posts     |-> Len(relevant_posts),
                                    top_relevant_posts |->
                                       Take(relevant_posts,
                                            IF targeted.name = "crm_network"
                                            THEN CrmNetworkTopRelevant
                                            ELSE WatermarkTopRelevant),
                                    insights           |-> insights ]]
  /\ UNCHANGED << pc, niche, max_subreddits, posts_per_subreddit, seed, variations, vi, result,
                  paused, all_subreddits, searched, subreddits, si, fetched, analysis,
                  total_posts, all_posts, all_themes, all_insights, report, returned,
                  collaborator, call >>

NextTargeted == TargetedFetch \/ TargetedReport

\* a run of a targeted script; the interpreter goes on executing it
SpecTargeted == InitTargeted /\ [][NextTargeted]_vars /\ WF_vars(NextTargeted)

\* the sentences analyze_post finds, under a bucket, in the relevant posts of
\* the corpus of a targeted run
C30_Analysis ==
  [ t \in { [ title    |-> DictGet(PostData(q), "title", <<>>),
              selftext |-> DictGet(PostData(q), "selftext", <<>>) ] : q \in ScriptPostPool }
      |-> AnalyzePost(t) ]

C30_FromRelevant(key) ==
  UNION { Range(C30_Analysis[[title |-> p.title, selftext |-> p.body]][key]) :
            p \in {q \in Range(targeted.all_posts) : q.relevant} }

\* the corpus after a step begins with the corpus before it
C30_CorpusKept ==
  /\ Len(targeted.all_posts) <= Len(targeted'.all_posts)
  /\ SubSeq(targeted'.all_posts, 1, Len(targeted.all_posts)) = targeted.all_posts

\* C30: a targeted script fetches the subreddits of TARGET_SUBREDDITS once
\* each, in list order, whatever path the earlier iterations took (error
\* indicator, no posts, posts processed, exception); every iteration ends in a
\* pause before the next fetch; the run reaches the assembly of the report,
\* with every subreddit attempted; posts appended to the corpus stay in it,
\* also when a later post of the same subreddit raises; the buckets hold only
\* sentences of posts judged relevant, and the report counts no more relevant
\* posts than posts.
C30_TargetedRun ==
  /\ [](targeted.fetches = Take(TARGET_SUBREDDITS(targeted.name), Len(targeted.fetches)))
  /\ [][(targeted'.fetches # targeted.fetches /\ targeted.fetches # <<>>) => targeted.paused]_vars
  /\ <>(targeted.pc = "Done")
  /\ [](targeted.pc = "Done" =>
          /\ targeted.fetches = Targets(targeted.name)
          /\ Len(targeted.paths) = Len(Targets(targeted.name))
          /\ targeted.report.total_posts = Len(targeted.all_posts)
          /\ targeted.report.relevant_posts
               = Cardinality({k \in 1..Len(targeted.all_posts) : targeted.all_posts[k].relevant})
          /\ targeted.report.relevant_posts <= targeted.report.total_posts)
  /\ [][C30_CorpusKept]_vars
  /\ [](\A key \in DOMAIN targeted.all_insights :
           Range(targeted.all_insights[key]) \subseteq C30_FromRelevant(key))

\* a finished run in which one subreddit answered with an error indicator,
\* another raised after a post of it had been appended, a later subreddit was
\* still fetched, and some post of the corpus is not relevant
C30_Witness ==
  /\ targeted.name \in Scripts
  /\ targeted.pc = "Done"
  /\ "error" \in Range(targeted.paths)
  /\ \E k \in 1..(Len(targeted.paths) - 1) :
        /\ targeted.paths[k] = "exception"
        /\ \E j \in 1..Len(targeted.all_posts) : targeted.all_posts[j].subreddit = targeted.fetches[k]
  /\ targeted.report.relevant_posts >= 1
  /\ targeted.report.relevant_posts < targeted.report.total_posts
  /\ targeted.all_insights.pain_points # <<>>

=============================================================================
